---- MODULE Spec2Model ----
(***************************************************************************)
(* Attempt / scoring state machine of the quiz server                      *)
(* (src/src/attempt/attempt.service.ts).                                   *)
(*                                                                         *)
(* Every handler of AttemptService is an async function: between two       *)
(* awaits another request may run.  Each handler is therefore modelled as  *)
(* a sequence of steps, one per awaited store operation, executed by a     *)
(* process (an in-flight HTTP request).  A step contains all the           *)
(* synchronous code that follows the await up to the next one.             *)
(*                                                                         *)
(* Store semantics: findOne reads the stored document, save() of a new     *)
(* document inserts it, save() of a loaded document writes the modified    *)
(* paths only (an array push is applied to the stored array, an assignment *)
(* inside an array element is a positional set).  Every save() may reject  *)
(* (driver error, validation error, version conflict): the handler then    *)
(* throws and nothing is written by that save.                             *)
(*                                                                         *)
(* The quiz collection is not written by any handler of AttemptService, so *)
(* a quiz lookup is taken in the same step as the attempt lookup next to   *)
(* it.  The timestamps (startedAt, lastUpdatedAt, answeredAt, completedAt) *)
(* are written but never read by the handlers; of them only the presence   *)
(* of completedAt is kept.                                                 *)
(*                                                                         *)
(* Specifications:                                                         *)
(*   Spec      requests of the processes interleave at their awaits        *)
(*   SeqSpec   one request at a time (each handler runs to its return)     *)
(*   ScoreSpec calculateScore applied to drawn (quiz, attempt) inputs      *)
(*   ValidateSpec validateAndFormatQuestions applied to drawn candidates   *)
(*   QuizSpec  the handlers of QuizService, one call at a time             *)
(*   AdaptiveSpec the adaptive quiz document built for a drawn request     *)
(*   GenerationSpec one generation request with its generator calls        *)
(*   ResultSpec  SeqSpec with ResultService.toggleResultVisibility         *)
(*   ReadSpec  SeqSpec with the reads getQuizById and getAttemptById       *)
(*   DeleteSpec  SeqSpec with QuizService.deleteQuiz                       *)
(*   PromptSpec  the adaptive prompt built for drawn parameters            *)
(***************************************************************************)
EXTENDS Integers, Sequences, FiniteSets, TLC

VARIABLES
    attempts,   \* QuizAttempt collection, in insertion order; slug = position
    results,    \* QuizResult collection, in insertion order; slug = position
    nreq,       \* number of requests received so far
    pc,         \* pc[p]: the await at which request p is suspended
    req,        \* req[p]: handler and arguments of the request of p
    loc,        \* loc[p]: the documents the handler holds in memory
    ret,        \* ret[p]: the response of the handler of p, until it is sent
    scoreIn,    \* ScoreSpec: the (quiz, attempt) given to calculateScore
    scoreOut,   \* ScoreSpec: what calculateScore returned and mutated
    valIn,      \* ValidateSpec: the arguments of validateAndFormatQuestions
    valIndex,   \* ValidateSpec: the loop variable index
    validQuestions, \* ValidateSpec: the local array validQuestions
    valOut,     \* ValidateSpec: what validateAndFormatQuestions returned or threw
    quizzes,    \* QuizSpec: Quiz collection, in insertion order; slug = position
    quizRet,    \* QuizSpec: the response to the last request
    adaptIn,    \* AdaptiveSpec: the request, its Result and the quiz of it
    adaptOut,   \* AdaptiveSpec: the adaptive quiz document that is built
    genReq,     \* GenerationSpec: the generation request being served
    genPc,      \* GenerationSpec: the await at which the request is suspended
    genParams,  \* GenerationSpec: the params QuizService hands to OpenAIService
    genCalls,   \* GenerationSpec: the chat completions requested so far
    genReplies, \* GenerationSpec: the replies of the generator so far
    weakTopics, \* GenerationSpec: what extractWeakTopics returned
    genQuiz,    \* GenerationSpec: the quiz document built, until it is saved
    genPrompt,  \* GenerationSpec: the generation prompt that was sent
    readOut,    \* ReadSpec: what the last read handler returned
    deletedQuizzes \* DeleteSpec: the quizzes of Quizzes that were deleted

vars == <<attempts, results, nreq, pc, req, loc, ret, scoreIn, scoreOut,
          valIn, valIndex, validQuestions, valOut, quizzes, quizRet,
          adaptIn, adaptOut, genReq, genPc, genParams, genCalls, genReplies,
          weakTopics, genQuiz, genPrompt, readOut, deletedQuizzes>>
store == <<attempts, results>>
scoreVars == <<scoreIn, scoreOut>>
valVars == <<valIn, valIndex, validQuestions, valOut>>
quizVars == <<quizzes, quizRet>>
adaptVars == <<adaptIn, adaptOut>>
genVars ==
    <<genReq, genPc, genParams, genCalls, genReplies, weakTopics, genQuiz,
      genPrompt>>

(***************************************************************************)
(* Bounds                                                                  *)
(***************************************************************************)
MaxRequests == 4      \* requests received in one behaviour
MaxQIndex == 2        \* largest questionIndex a request carries
ScoreMaxLen == 2      \* ScoreSpec: longest list of option indices
MaxCandidates == 2    \* ValidateSpec: longest list of candidate questions
MaxQuizzes == 3       \* QuizSpec: quizzes generated in one behaviour
MaxResults == 2       \* QuizSpec: attempts completed in one behaviour

Users == {"u1", "u2"}
Procs == {"p1", "p2"}

(***************************************************************************)
(* Quiz collection (read-only for the attempt service).  A quiz keeps the   *)
(* numberOfQuestions that was asked for next to the questions that passed  *)
(* validation (QuizService.generateQuiz): q1 holds as many questions as    *)
(* declared, q2 holds one more.                                            *)
(***************************************************************************)
Quizzes ==
    "q1" :> [creatorId |-> "u1", isPublic |-> TRUE, numberOfQuestions |-> 2,
             questions |-> << [questionType |-> "multiple-correct",
                               correctAnswers |-> <<1, 0>>],
                              [questionType |-> "true-false",
                               correctAnswers |-> <<0>>] >>]
    @@
    "q2" :> [creatorId |-> "u2", isPublic |-> FALSE, numberOfQuestions |-> 1,
             questions |-> << [questionType |-> "mcq",
                               correctAnswers |-> <<0>>],
                              [questionType |-> "true-false",
                               correctAnswers |-> <<0>>] >>]

QuizSlugs == DOMAIN Quizzes
\* the quizzes a lookup in the quiz collection finds
StoredQuizzes == QuizSlugs \ deletedQuizzes
\* slugs a start request may carry: the stored ones and one that resolves to nothing
RequestedSlugs == QuizSlugs \cup {"q0"}

\* selectedAnswers a submitAnswer request may carry (SubmitAnswerDto: a
\* non-empty array of integers)
Selections == { <<0>>, <<1, 0>> }

\* ScoreSpec: the option indices, the lists of them (correctAnswers and
\* selectedAnswers are arrays: order and repetitions are kept), the quizzes of
\* one or two questions and the answer arrays of up to two records
ScoreOptions == {0, 1}
IndexLists == UNION {[1..n -> ScoreOptions] : n \in 1..ScoreMaxLen}
ScoreQuestions ==
    UNION {[1..n -> [correctAnswers : IndexLists]] : n \in {1, 2}}
ScoreAnswers ==
    UNION {[1..n -> [questionIndex : {0, 1}, selectedAnswers : IndexLists]] :
              n \in {0, 1, 2}}
NoScoreIn == [questions |-> <<>>, answers |-> <<>>]
NoScoreOut == [score |-> -1]

NoDoc == [aid |-> 0]
NoReq == [op |-> "none"]
NoRet == [kind |-> "none", id |-> 0]

(***************************************************************************)
(* Pure helpers                                                            *)
(***************************************************************************)
RECURSIVE Insert(_, _)
Insert(x, s) ==
    IF s = <<>> THEN <<x>>
    ELSE IF x <= Head(s) THEN <<x>> \o s
    ELSE <<Head(s)>> \o Insert(x, Tail(s))

\* Array.prototype.sort((a, b) => a - b)
RECURSIVE SortAsc(_)
SortAsc(s) == IF s = <<>> THEN <<>> ELSE Insert(Head(s), SortAsc(Tail(s)))

\* mutant: the lookup never finds a record
FindIndex_Never(answers, qi) == 0

\* mutant: the lookup compares with the next index
FindIndex_OffByOne(answers, qi) ==
    LET S == {k \in 1..Len(answers) : answers[k].questionIndex = qi + 1}
    IN IF S = {} THEN 0 ELSE CHOOSE k \in S : \A j \in S : k <= j

\* answers.findIndex((a) => a.questionIndex === qi), 1-based; 0 when absent
FindIndex(answers, qi) ==
    LET S == {k \in 1..Len(answers) : answers[k].questionIndex = qi}
    IN IF S = {} THEN 0 ELSE CHOOSE k \in S : \A j \in S : k <= j

\* mutant: the lengths are not compared, a selection that starts with the
\* correct answers passes
GradeQuestion_NoLength(questions, answers, i) ==
    LET k == FindIndex(answers, i - 1)
        question == questions[i]
    IN IF k = 0
       THEN [questionIndex |-> i - 1, selectedAnswers |-> <<>>,
             correctAnswers |-> question.correctAnswers, isCorrect |-> FALSE]
       ELSE LET correctAnswers == SortAsc(question.correctAnswers)
                sortedSelectedAnswers == SortAsc(answers[k].selectedAnswers)
            IN [questionIndex |-> i - 1,
                selectedAnswers |-> sortedSelectedAnswers,
                correctAnswers |-> correctAnswers,
                isCorrect |->
                    \A idx \in 1..Len(correctAnswers) :
                        /\ idx <= Len(sortedSelectedAnswers)
                        /\ correctAnswers[idx] = sortedSelectedAnswers[idx]]

\* one iteration of the loop of calculateScore, for the question at position i
\* (questionIndex i - 1)
GradeQuestion(questions, answers, i) ==
    LET k == FindIndex(answers, i - 1)
        question == questions[i]
    IN IF k = 0
       THEN [questionIndex |-> i - 1, selectedAnswers |-> <<>>,
             correctAnswers |-> question.correctAnswers, isCorrect |-> FALSE]
       ELSE LET correctAnswers == SortAsc(question.correctAnswers)
                sortedSelectedAnswers == SortAsc(answers[k].selectedAnswers)
            IN [questionIndex |-> i - 1,
                selectedAnswers |-> sortedSelectedAnswers,
                correctAnswers |-> correctAnswers,
                isCorrect |->
                    /\ Len(correctAnswers) = Len(sortedSelectedAnswers)
                    /\ \A idx \in 1..Len(correctAnswers) :
                          correctAnswers[idx] = sortedSelectedAnswers[idx]]

\* positions of the answer records calculateScore sorts in place
SortedPositions(questions, answers) ==
    {k \in 1..Len(answers) :
        \E i \in 1..Len(questions) : FindIndex(answers, i - 1) = k}

\* calculateScore(quiz, attempt): the returned {score, answers}, and the
\* attempt's answers and the quiz's questions as the in-place sorts leave them
calculateScore(questions, answers) ==
    LET graded == [i \in 1..Len(questions) |-> GradeQuestion(questions, answers, i)]
    IN [score |-> Cardinality({i \in 1..Len(questions) : graded[i].isCorrect}),
        answers |-> graded,
        attemptAnswers |->
            [k \in 1..Len(answers) |->
                IF k \in SortedPositions(questions, answers)
                THEN [answers[k] EXCEPT !.selectedAnswers = SortAsc(@)]
                ELSE answers[k]],
        quizQuestions |->
            [i \in 1..Len(questions) |->
                IF FindIndex(answers, i - 1) # 0
                THEN [questions[i] EXCEPT !.correctAnswers = SortAsc(@)]
                ELSE questions[i]]]

\* mutant: the ratio is not scaled to a percentage
Percentage_Unscaled(score, numberOfQuestions) ==
    [num |-> score, den |-> numberOfQuestions]

\* (score / quiz.numberOfQuestions) * 100, kept as an exact fraction
Percentage(score, numberOfQuestions) ==
    [num |-> score * 100, den |-> numberOfQuestions]

\* the handler of p returns or throws: the response is sent
\* the handler of p returns or throws
Return(p, kind, id) ==
    /\ pc' = [pc EXCEPT ![p] = "done"]
    /\ ret' = [ret EXCEPT ![p] = [kind |-> kind, id |-> id]]
    /\ UNCHANGED loc

\* the handler of p waits for its next store operation
Suspend(p, at, doc) ==
    /\ pc' = [pc EXCEPT ![p] = at]
    /\ loc' = [loc EXCEPT ![p] = doc]
    /\ UNCHANGED ret

\* a request arrives at p
Receive(p, r) ==
    /\ pc[p] = "idle"
    /\ nreq < MaxRequests
    /\ nreq' = nreq + 1
    /\ req' = [req EXCEPT ![p] = r]

\* the response of p is sent
Respond(p) ==
    /\ pc[p] = "done"
    /\ pc' = [pc EXCEPT ![p] = "idle"]
    /\ req' = [req EXCEPT ![p] = NoReq]
    /\ loc' = [loc EXCEPT ![p] = NoDoc]
    /\ ret' = [ret EXCEPT ![p] = NoRet]
    /\ UNCHANGED <<store, nreq, scoreVars, valVars, quizVars, adaptVars,
                   genVars, readOut, deletedQuizzes>>

\* mutant: a quiz is refused as soon as the caller is not its creator
NoAccess_CreatorOnly(quiz, userId) == quiz.creatorId # userId

\* quiz.creatorId.toString() !== userId && !quiz.isPublic
NoAccess(quiz, userId) == quiz.creatorId # userId /\ ~quiz.isPublic

\* mutant: only a completed attempt is refused
NotInProgress_OnlyCompleted(attempt) == attempt.status = "completed"

\* attempt.status !== 'in-progress'
NotInProgress(attempt) == attempt.status # "in-progress"

\* mutant: the index equal to the question count is let through
InvalidIndex_OffByOne(quiz, questionIndex) == questionIndex > Len(quiz.questions)

\* submitAnswerDto.questionIndex >= quiz.questions.length
InvalidIndex(quiz, questionIndex) == questionIndex >= Len(quiz.questions)

\* mutant: the status is left out of the filter
InProgress_AnyStatus(userId, quizId) ==
    {k \in 1..Len(attempts) :
        /\ attempts[k].userId = userId
        /\ attempts[k].quizId = quizId}

\* attempts matching {userId, quizId, status: 'in-progress'}
InProgress(userId, quizId) ==
    {k \in 1..Len(attempts) :
        /\ attempts[k].userId = userId
        /\ attempts[k].quizId = quizId
        /\ attempts[k].status = "in-progress"}

(***************************************************************************)
(* startAttempt                                                            *)
(***************************************************************************)
\* quizModel.findOne({slug}), the access checks, then
\* attemptModel.findOne({userId, quizId, status: 'in-progress'}): either an
\* existing attempt is returned or a new document is built.  findOne has no
\* sort: with several matches any of them may be the one found.
StartFind(p, userId, quizId) ==
    /\ Receive(p, [op |-> "start", userId |-> userId, quizId |-> quizId])
    /\ IF quizId \notin StoredQuizzes
       THEN Return(p, "NotFound", 0)
       ELSE IF NoAccess(Quizzes[quizId], userId)
       THEN Return(p, "Forbidden", 0)
       ELSE IF InProgress(userId, quizId) # {}
       THEN \E k \in InProgress(userId, quizId) : Return(p, "ok", k)
       ELSE Suspend(p, "start_save",
                    [aid |-> 0,
                     doc |-> [userId |-> userId, quizId |-> quizId,
                              answers |-> <<>>, status |-> "in-progress",
                              completedAt |-> FALSE]])
    /\ UNCHANGED <<store, scoreVars, valVars, quizVars, adaptVars,
                   genVars, readOut, deletedQuizzes>>

\* attempt.save() of the new document
StartSave(p) ==
    /\ pc[p] = "start_save"
    /\ attempts' = Append(attempts, loc[p].doc)
    /\ Return(p, "ok", Len(attempts) + 1)
    /\ UNCHANGED <<results, nreq, req, scoreVars, valVars, quizVars, adaptVars,
                   genVars, readOut, deletedQuizzes>>

StartSaveFail(p) ==
    /\ pc[p] = "start_save"
    /\ Return(p, "SaveFailed", 0)
    /\ UNCHANGED <<store, nreq, req, scoreVars, valVars, quizVars, adaptVars,
                   genVars, readOut, deletedQuizzes>>

(***************************************************************************)
(* Checks shared by submitAnswer, submitAttempt and abandonAttempt         *)
(***************************************************************************)
\* attempt slugs a request may carry: the stored ones and one that is missing
RequestedAttempts == 1..(Len(attempts) + 1)

AttemptExists(a) == a \in 1..Len(attempts)

(***************************************************************************)
(* submitAnswer                                                            *)
(***************************************************************************)
\* attemptModel.findOne({slug}), the checks, quizModel.findById, the index
\* check and the in-memory upsert
AnswerFind(p, userId, a, questionIndex, selectedAnswers) ==
    /\ Receive(p, [op |-> "answer", userId |-> userId, attemptId |-> a,
                   questionIndex |-> questionIndex,
                   selectedAnswers |-> selectedAnswers])
    /\ IF ~AttemptExists(a)
       THEN Return(p, "NotFound", 0)
       ELSE IF attempts[a].userId # userId
       THEN Return(p, "Forbidden", 0)
       ELSE IF NotInProgress(attempts[a])
       THEN Return(p, "InvalidState", 0)
       ELSE IF attempts[a].quizId \notin StoredQuizzes
       THEN Return(p, "NotFound", 0)
       ELSE IF InvalidIndex(Quizzes[attempts[a].quizId], questionIndex)
       THEN Return(p, "OutOfRange", 0)
       ELSE Suspend(p, "answer_save",
                    [aid |-> a,
                     existingAnswerIndex |->
                         FindIndex(attempts[a].answers, questionIndex)])
    /\ UNCHANGED <<store, scoreVars, valVars, quizVars, adaptVars,
                   genVars, readOut, deletedQuizzes>>

\* attempt.save(): the answer is set in place or pushed onto the stored array
AnswerSave(p) ==
    /\ pc[p] = "answer_save"
    /\ LET a == loc[p].aid
           k == loc[p].existingAnswerIndex
           r == req[p]
       IN attempts' = [attempts EXCEPT ![a].answers =
              IF k # 0
              THEN [@ EXCEPT ![k].selectedAnswers = r.selectedAnswers]
              ELSE Append(@, [questionIndex |-> r.questionIndex,
                              selectedAnswers |-> r.selectedAnswers])]
    /\ Return(p, "ok", loc[p].aid)
    /\ UNCHANGED <<results, nreq, req, scoreVars, valVars, quizVars, adaptVars,
                   genVars, readOut, deletedQuizzes>>

AnswerSaveFail(p) ==
    /\ pc[p] = "answer_save"
    /\ Return(p, "SaveFailed", 0)
    /\ UNCHANGED <<store, nreq, req, scoreVars, valVars, quizVars, adaptVars,
                   genVars, readOut, deletedQuizzes>>

(***************************************************************************)
(* submitAttempt                                                           *)
(***************************************************************************)
\* new this.resultModel({...})
NewResult(a, doc, quiz, graded) ==
    [userId |-> doc.userId,
     quizId |-> doc.quizId,
     attemptId |-> a,
     answers |-> graded.answers,
     score |-> graded.score,
     totalQuestions |-> quiz.numberOfQuestions,
     percentage |-> Percentage(graded.score, quiz.numberOfQuestions),
     isResultPublic |-> TRUE]

\* attemptModel.findOne({slug}), the checks, quizModel.findById,
\* calculateScore; the Result document is built and the attempt is marked
\* completed in memory
SubmitFind(p, userId, a) ==
    /\ Receive(p, [op |-> "submit", userId |-> userId, attemptId |-> a])
    /\ IF ~AttemptExists(a)
       THEN Return(p, "NotFound", 0)
       ELSE IF attempts[a].userId # userId
       THEN Return(p, "Forbidden", 0)
       ELSE IF NotInProgress(attempts[a])
       THEN Return(p, "InvalidState", 0)
       ELSE IF attempts[a].quizId \notin StoredQuizzes
       THEN Return(p, "NotFound", 0)
       ELSE LET doc == attempts[a]
                quiz == Quizzes[doc.quizId]
                graded == calculateScore(quiz.questions, doc.answers)
            IN Suspend(p, "submit_save_attempt",
                       [aid |-> a,
                        answers |-> graded.attemptAnswers,
                        sorted |-> SortedPositions(quiz.questions, doc.answers),
                        result |-> NewResult(a, doc, quiz, graded)])
    /\ UNCHANGED <<store, scoreVars, valVars, quizVars, adaptVars,
                   genVars, readOut, deletedQuizzes>>

\* await attempt.save(): status, completedAt and the selections sorted by
\* calculateScore are written
SubmitSaveAttempt(p) ==
    /\ pc[p] = "submit_save_attempt"
    /\ LET a == loc[p].aid
           stored == attempts[a]
       IN attempts' = [attempts EXCEPT ![a] =
              [stored EXCEPT
                  !.status = "completed",
                  !.completedAt = TRUE,
                  !.answers = [k \in 1..Len(stored.answers) |->
                                  IF k \in loc[p].sorted
                                  THEN [stored.answers[k] EXCEPT !.selectedAnswers =
                                            loc[p].answers[k].selectedAnswers]
                                  ELSE stored.answers[k]]]]
    /\ pc' = [pc EXCEPT ![p] = "submit_save_result"]
    /\ UNCHANGED <<results, nreq, req, loc, ret, scoreVars, valVars, quizVars, adaptVars,
                   genVars, readOut, deletedQuizzes>>

SubmitSaveAttemptFail(p) ==
    /\ pc[p] = "submit_save_attempt"
    /\ Return(p, "SaveFailed", 0)
    /\ UNCHANGED <<store, nreq, req, scoreVars, valVars, quizVars, adaptVars,
                   genVars, readOut, deletedQuizzes>>

\* return result.save()
SubmitSaveResult(p) ==
    /\ pc[p] = "submit_save_result"
    /\ results' = Append(results, loc[p].result)
    /\ Return(p, "ok", Len(results) + 1)
    /\ UNCHANGED <<attempts, nreq, req, scoreVars, valVars, quizVars, adaptVars,
                   genVars, readOut, deletedQuizzes>>

SubmitSaveResultFail(p) ==
    /\ pc[p] = "submit_save_result"
    /\ Return(p, "SaveFailed", 0)
    /\ UNCHANGED <<store, nreq, req, scoreVars, valVars, quizVars, adaptVars,
                   genVars, readOut, deletedQuizzes>>

(***************************************************************************)
(* abandonAttempt                                                          *)
(***************************************************************************)
\* attemptModel.findOne({slug}) and the ownership check
AbandonFind(p, userId, a) ==
    /\ Receive(p, [op |-> "abandon", userId |-> userId, attemptId |-> a])
    /\ IF ~AttemptExists(a)
       THEN Return(p, "NotFound", 0)
       ELSE IF attempts[a].userId # userId
       THEN Return(p, "Forbidden", 0)
       ELSE Suspend(p, "abandon_save", [aid |-> a])
    /\ UNCHANGED <<store, scoreVars, valVars, quizVars, adaptVars,
                   genVars, readOut, deletedQuizzes>>

\* mutant: the answers are dropped with the attempt
AbandonSave_DropsAnswers(p) ==
    /\ pc[p] = "abandon_save"
    /\ attempts' = [attempts EXCEPT ![loc[p].aid].status = "abandoned",
                                    ![loc[p].aid].answers = <<>>]
    /\ Return(p, "ok", loc[p].aid)
    /\ UNCHANGED <<results, nreq, req, scoreVars, valVars, quizVars, adaptVars,
                   genVars, readOut, deletedQuizzes>>

\* attempt.status = 'abandoned'; await attempt.save()
AbandonSave(p) ==
    /\ pc[p] = "abandon_save"
    /\ attempts' = [attempts EXCEPT ![loc[p].aid].status = "abandoned"]
    /\ Return(p, "ok", loc[p].aid)
    /\ UNCHANGED <<results, nreq, req, scoreVars, valVars, quizVars, adaptVars,
                   genVars, readOut, deletedQuizzes>>

AbandonSaveFail(p) ==
    /\ pc[p] = "abandon_save"
    /\ Return(p, "SaveFailed", 0)
    /\ UNCHANGED <<store, nreq, req, scoreVars, valVars, quizVars, adaptVars,
                   genVars, readOut, deletedQuizzes>>

(***************************************************************************)
(* ResultService.toggleResultVisibility.                                   *)
(***************************************************************************)
\* result slugs a request may carry: the stored ones and a missing one
RequestedResultSlugs == 1..(Len(results) + 1)

\* toggleResultVisibility(resultSlug, userId) up to save()
ToggleFind(p, userId, r) ==
    /\ Receive(p, [op |-> "toggle", userId |-> userId, resultSlug |-> r])
    /\ IF r \notin 1..Len(results)
       THEN Return(p, "NotFound", 0)
       ELSE IF results[r].userId # userId
       THEN Return(p, "Forbidden", 0)
       ELSE Suspend(p, "toggle_save",
                    [aid |-> 0, rid |-> r,
                     isResultPublic |-> results[r].isResultPublic])
    /\ UNCHANGED <<store, scoreVars, valVars, quizVars, adaptVars,
                   genVars, readOut, deletedQuizzes>>

\* mutant: the result is made public
toggled_Public(isResultPublic) == TRUE

\* result.isResultPublic = !result.isResultPublic
toggled(isResultPublic) == ~isResultPublic

\* await result.save(): the modified path is written
ToggleSave(p) ==
    /\ pc[p] = "toggle_save"
    /\ results' = [results EXCEPT ![loc[p].rid].isResultPublic =
                                     toggled(loc[p].isResultPublic)]
    /\ Return(p, "ok", loc[p].rid)
    /\ UNCHANGED <<attempts, nreq, req, scoreVars, valVars, quizVars,
                   adaptVars, genVars, readOut, deletedQuizzes>>

ToggleSaveFail(p) ==
    /\ pc[p] = "toggle_save"
    /\ Return(p, "SaveFailed", 0)
    /\ UNCHANGED <<store, nreq, req, scoreVars, valVars, quizVars, adaptVars,
                   genVars, readOut, deletedQuizzes>>

(***************************************************************************)
(* QuizService.deleteQuiz, on the quizzes the attempts are taken on.       *)
(***************************************************************************)
\* deleteQuiz(quizSlug, userId) up to deleteOne
DeleteFind(p, userId, quizSlug) ==
    /\ Receive(p, [op |-> "delete", userId |-> userId, quizId |-> quizSlug])
    /\ IF quizSlug \notin StoredQuizzes
       THEN Return(p, "NotFound", 0)
       ELSE IF Quizzes[quizSlug].creatorId # userId
       THEN Return(p, "Forbidden", 0)
       ELSE Suspend(p, "delete_one", [aid |-> 0, quizId |-> quizSlug])
    /\ UNCHANGED <<store, scoreVars, valVars, quizVars, adaptVars, genVars,
                   readOut, deletedQuizzes>>

\* await this.quizModel.deleteOne({slug}): resolves or rejects
DeleteOne(p, deleted) ==
    /\ pc[p] = "delete_one"
    /\ IF deleted
       THEN /\ deletedQuizzes' = deletedQuizzes \cup {loc[p].quizId}
            /\ Return(p, "ok", 0)
       ELSE /\ UNCHANGED deletedQuizzes
            /\ Return(p, "DeleteFailed", 0)
    /\ UNCHANGED <<store, nreq, req, scoreVars, valVars, quizVars, adaptVars,
                   genVars, readOut>>

(***************************************************************************)
(* Read handlers: QuizService.getQuizById, AttemptService.getAttemptById.  *)
(* Of a response the model keeps who asked, the quiz it is about and the   *)
(* questions (with their correct answers) it carries, if any.              *)
(***************************************************************************)
\* the caller of a route with OptionalJwtAuthGuard who is not logged in
NoUser == "nobody"

Withheld == [visible |-> FALSE, items |-> <<>>]
Visible(questions) == [visible |-> TRUE, items |-> questions]

NoRead ==
    [op |-> "none", userId |-> NoUser, kind |-> "none", quizId |-> "q0",
     questions |-> Withheld]

\* nothing was read and nothing was deleted
NothingRead ==
    /\ readOut = NoRead
    /\ deletedQuizzes = {}

\* a read handler returns or throws
ReadReturn(op, userId, kind, quizId, questions) ==
    readOut' = [op |-> op, userId |-> userId, kind |-> kind,
                quizId |-> quizId, questions |-> questions]

\* hasUserCompletedQuiz(quizSlug, userId): a Result of the user for the quiz
hasUserCompletedQuiz(quizSlug, userId) ==
    /\ quizSlug \in StoredQuizzes
    /\ \E r \in 1..Len(results) :
          results[r].quizId = quizSlug /\ results[r].userId = userId

\* getQuizById(quizSlug, userId?)
GetQuizById(userId, quizSlug) ==
    /\ IF quizSlug \notin StoredQuizzes
       THEN ReadReturn("getQuizById", userId, "NotFound", quizSlug, Withheld)
       ELSE IF /\ ~Quizzes[quizSlug].isPublic
               /\ userId = NoUser \/ Quizzes[quizSlug].creatorId # userId
       THEN ReadReturn("getQuizById", userId, "Forbidden", quizSlug, Withheld)
       ELSE LET isOwner ==
                    userId # NoUser /\ Quizzes[quizSlug].creatorId = userId
                hasCompletedQuiz ==
                    userId # NoUser /\ hasUserCompletedQuiz(quizSlug, userId)
            IN ReadReturn("getQuizById", userId, "ok", quizSlug,
                          IF ~isOwner /\ ~hasCompletedQuiz
                          THEN Withheld
                          ELSE Visible(Quizzes[quizSlug].questions))
    /\ UNCHANGED <<store, nreq, pc, req, loc, ret, scoreVars, valVars,
                   quizVars, adaptVars, genVars, deletedQuizzes>>

\* getAttemptById(attemptSlug, userId): the attempt with populate('quizId'),
\* which puts the whole quiz document in place of its id (null if the quiz
\* is gone)
GetAttemptById(userId, a) ==
    /\ IF ~AttemptExists(a)
       THEN ReadReturn("getAttemptById", userId, "NotFound", "q0", Withheld)
       ELSE IF attempts[a].userId # userId
       THEN ReadReturn("getAttemptById", userId, "Forbidden", "q0", Withheld)
       ELSE ReadReturn("getAttemptById", userId, "ok", attempts[a].quizId,
                       IF attempts[a].quizId \in StoredQuizzes
                       THEN Visible(Quizzes[attempts[a].quizId].questions)
                       ELSE Withheld)
    /\ UNCHANGED <<store, nreq, pc, req, loc, ret, scoreVars, valVars,
                   quizVars, adaptVars, genVars, deletedQuizzes>>

(***************************************************************************)
(* Question validator (OpenAIService.validateAndFormatQuestions).          *)
(*                                                                         *)
(* The candidates come from JSON.parse of the generator's reply, so every  *)
(* field is a loosely typed value.  A scalar is a record with its typeof;  *)
(* the text of a string is a sequence of symbols: single characters where  *)
(* the validator looks inside the string (the options, for trim and        *)
(* toLowerCase), whole words elsewhere.  A number is the exact fraction    *)
(* num/den with den > 0 (JSON has numbers, not integers).  An array field  *)
(* keeps whether it is an array at all.                                    *)
(***************************************************************************)
Str(chars) == [type |-> "string", chars |-> chars, num |-> 0, den |-> 1]
Num(n, d) == [type |-> "number", chars |-> <<>>, num |-> n, den |-> d]
Undefined == [type |-> "undefined", chars |-> <<>>, num |-> 0, den |-> 1]
Arr(items) == [isArray |-> TRUE, items |-> items]
NotArr == [isArray |-> FALSE, items |-> <<>>]

mcq == <<"mcq">>
trueFalse == <<"true-false">>
multipleCorrect == <<"multiple-correct">>

\* a value that `||` replaces by its right operand
Falsy(v) ==
    \/ v.type = "undefined"
    \/ v.type = "string" /\ v.chars = <<>>
    \/ v.type = "number" /\ v.num = 0

\* leading, then trailing white space
RECURSIVE trimStart(_)
trimStart(s) ==
    IF s # <<>> /\ Head(s) = " " THEN trimStart(Tail(s)) ELSE s

RECURSIVE trimEnd(_)
trimEnd(s) ==
    IF s # <<>> /\ s[Len(s)] = " " THEN trimEnd(SubSeq(s, 1, Len(s) - 1)) ELSE s

\* String.prototype.trim
trim(s) == trimEnd(trimStart(s))

\* String.prototype.toLowerCase
toLowerCase(s) ==
    [i \in 1..Len(s) |->
        IF s[i] = "A" THEN "a" ELSE IF s[i] = "B" THEN "b" ELSE s[i]]

\* options.some((opt) => typeof opt !== 'string' || !opt || opt.trim().length === 0)
hasEmptyOptions(options) ==
    \E i \in 1..Len(options) :
        \/ options[i].type # "string"
        \/ options[i].chars = <<>>
        \/ Len(trim(options[i].chars)) = 0

\* new Set(stringOptions.map((opt) => opt.trim().toLowerCase()))
uniqueOptions(stringOptions) ==
    {toLowerCase(trim(stringOptions[i].chars)) : i \in 1..Len(stringOptions)}

\* correctAnswers.some((answerIndex) => typeof answerIndex !== 'number' ||
\*     answerIndex < 0 || answerIndex >= stringOptions.length)
hasInvalidIndices(correctAnswers, length) ==
    \E i \in 1..Len(correctAnswers) :
        \/ correctAnswers[i].type # "number"
        \/ correctAnswers[i].num < 0
        \/ correctAnswers[i].num >= length * correctAnswers[i].den

\* the checks of one loop iteration, in their order: the warning that is
\* logged before `continue`, "none" when the candidate is kept
SkipReason(q, requestedQuestionTypes) ==
    LET questionType == q.questionType
        options == q.options
        correctAnswers == q.correctAnswers
    IN IF questionType.type # "string"
          \/ questionType.chars \notin {mcq, trueFalse, multipleCorrect}
       THEN "Invalid question type"
       ELSE IF questionType.chars \notin requestedQuestionTypes
       THEN "Question type not in requested types"
       ELSE IF ~options.isArray \/ Len(options.items) < 2
       THEN "Invalid options count"
       ELSE IF hasEmptyOptions(options.items)
       THEN "Contains empty options"
       ELSE IF Cardinality(uniqueOptions(options.items)) # Len(options.items)
       THEN "Contains duplicate options"
       ELSE IF ~correctAnswers.isArray \/ Len(correctAnswers.items) = 0
       THEN "Invalid correct answers"
       ELSE IF hasInvalidIndices(correctAnswers.items, Len(options.items))
       THEN "Invalid answer indices"
       ELSE IF questionType.chars = trueFalse /\ Len(options.items) # 2
       THEN "True/False must have exactly 2 options"
       ELSE IF questionType.chars = mcq /\ Len(correctAnswers.items) # 1
       THEN "MCQ must have exactly 1 correct answer"
       ELSE IF questionType.chars = multipleCorrect
               /\ Len(correctAnswers.items) < 2
       THEN "Multiple-correct must have at least 2 correct answers"
       ELSE "none"

\* the record pushed to validQuestions; explanation || 'No explanation provided.'
FormatQuestion(q) ==
    [questionText |-> q.questionText,
     questionType |-> q.questionType.chars,
     options |-> q.options.items,
     correctAnswers |-> q.correctAnswers.items,
     explanation |->
        IF Falsy(q.explanation)
        THEN Str(<<"No explanation provided.">>)
        ELSE q.explanation]

NoValIn == [questions |-> <<>>, requestedQuestionTypes |-> {}]
NoValOut == [kind |-> "none", questions |-> <<>>]

\* the validator is not running
ValidatorIdle ==
    /\ valIn = NoValIn
    /\ valIndex = 0
    /\ validQuestions = <<>>
    /\ valOut = NoValOut

(***************************************************************************)
(* Quiz service (src/src/quiz/quiz.service.ts).                            *)
(*                                                                         *)
(* QuizSpec keeps the quiz collection in the variable quizzes; the _id and *)
(* slug of a quiz is its position, parentQuizId and sourceResultId are 0   *)
(* where the document has no such field.  A handler of QuizService is one  *)
(* action: generateQuiz and generateAdaptiveQuiz insert a new document     *)
(* built from their arguments, from the generator's reply and from fields  *)
(* that no handler writes after creation (a result's userId, quizId and    *)
(* answers; a quiz's difficulty, numberOfQuestions, questions and          *)
(* parentQuizId); updateQuiz and toggleVisibility read and write isPublic  *)
(* of one document.  The generator's reply and the outcome of save() are   *)
(* inputs of the action.  Of a quiz document the topic, the question       *)
(* types, the weak topics and the question source are not kept.            *)
(*                                                                         *)
(* AdaptiveSpec applies the construction of the adaptive quiz document to  *)
(* a drawn (result, quiz, request).                                        *)
(***************************************************************************)
Difficulties == {"easy", "medium", "hard"}

\* GenerateQuizDto, of which the model keeps difficulty and numberOfQuestions
GenerateQuizDto(difficulty, numberOfQuestions) ==
    [difficulty |-> difficulty, numberOfQuestions |-> numberOfQuestions]

\* the questions the generator service returns (after validation)
GeneratedQuestions ==
    << [questionText |-> "Q1", questionType |-> "mcq",
        options |-> <<"a", "b">>, correctAnswers |-> <<1>>,
        explanation |-> "why b"],
       [questionText |-> "Q2", questionType |-> "true-false",
        options |-> <<"True", "False">>, correctAnswers |-> <<0>>,
        explanation |-> "why True"] >>

\* what happens to a generation request after its checks: the generator
\* service throws, or it returns questions and save() is rejected, or all
\* succeeds
GenerationOutcomes == {"generator-error", "save-error", "ok"}

\* the answers of the attempts that are taken: all correct, the first wrong,
\* the second not answered, none answered
TakenAnswers ==
    { << [questionIndex |-> 0, selectedAnswers |-> <<1>>],
         [questionIndex |-> 1, selectedAnswers |-> <<0>>] >>,
      << [questionIndex |-> 0, selectedAnswers |-> <<0>>],
         [questionIndex |-> 1, selectedAnswers |-> <<0>>] >>,
      << [questionIndex |-> 0, selectedAnswers |-> <<1>>] >>,
      << >> }

\* UpdateQuizDto: isPublic is optional
UpdateQuizDtos ==
    { [defined |-> FALSE, isPublic |-> FALSE],
      [defined |-> TRUE, isPublic |-> FALSE],
      [defined |-> TRUE, isPublic |-> TRUE] }

\* quiz and result slugs a request may carry: the stored ones and a missing one
RequestedQuizzes == 1..(Len(quizzes) + 1)
RequestedResults == 1..(Len(results) + 1)

\* GenerateAdaptiveQuizDto
GenerateAdaptiveQuizDtos ==
    [resultSlug : RequestedResults, focusOnWeakAreas : BOOLEAN,
     useHarderDifficulty : BOOLEAN]

NoAdaptIn == [dto |-> [resultSlug |-> 0]]
NoAdaptOut == [creatorId |-> "none"]

\* the quiz service is not running
QuizIdle ==
    /\ quizzes = <<>>
    /\ quizRet = NoRet
    /\ adaptIn = NoAdaptIn
    /\ adaptOut = NoAdaptOut

\* a handler of QuizService returns or throws
QuizReturn(kind, id) == quizRet' = [kind |-> kind, id |-> id]

\* mutant: the questions that were not answered are left out
wrongAnswers_Answered(result, originalQuiz) ==
    LET Wrong(answer) ==
            /\ ~answer.isCorrect
            /\ answer.selectedAnswers # <<>>
            /\ ~(answer.questionIndex < 0
                 \/ answer.questionIndex >= Len(originalQuiz.questions))
        Question(answer) == originalQuiz.questions[answer.questionIndex + 1]
        wrong == SelectSeq(result.answers, Wrong)
    IN [i \in 1..Len(wrong) |->
           [questionText |-> Question(wrong[i]).questionText,
            questionType |-> Question(wrong[i]).questionType,
            selectedAnswers |-> wrong[i].selectedAnswers,
            correctAnswers |-> wrong[i].correctAnswers,
            explanation |-> Question(wrong[i]).explanation,
            options |-> Question(wrong[i]).options]]

\* the wrong answers of a result with the details of their questions: the
\* loop over result.answers skips the correct ones and those whose
\* questionIndex is not an index of originalQuiz.questions
wrongAnswers(result, originalQuiz) ==
    LET Wrong(answer) ==
            /\ ~answer.isCorrect
            /\ ~(answer.questionIndex < 0
                 \/ answer.questionIndex >= Len(originalQuiz.questions))
        Question(answer) == originalQuiz.questions[answer.questionIndex + 1]
        wrong == SelectSeq(result.answers, Wrong)
    IN [i \in 1..Len(wrong) |->
           [questionText |-> Question(wrong[i]).questionText,
            questionType |-> Question(wrong[i]).questionType,
            selectedAnswers |-> wrong[i].selectedAnswers,
            correctAnswers |-> wrong[i].correctAnswers,
            explanation |-> Question(wrong[i]).explanation,
            options |-> Question(wrong[i]).options]]

\* focusOnWeakAreas && wrongAnswers.length > 0
shouldFocusOnWeakAreas(focusOnWeakAreas, wrong) ==
    focusOnWeakAreas /\ Len(wrong) > 0

\* mutant: the focus is looked at first
generationType_FocusFirst(useHarderDifficulty, shouldFocus) ==
    IF shouldFocus THEN "adaptive-weak"
    ELSE IF useHarderDifficulty THEN "adaptive-harder"
    ELSE "adaptive-same"

\* the generation type of an adaptive quiz
generationType(useHarderDifficulty, shouldFocus) ==
    IF useHarderDifficulty THEN "adaptive-harder"
    ELSE IF shouldFocus THEN "adaptive-weak"
    ELSE "adaptive-same"

\* mutant: the difficulty is never raised
getNextDifficulty_Same(current) == current

\* QuizService.getNextDifficulty: difficultyMap[current]
getNextDifficulty(current) ==
    CASE current = "easy" -> "medium"
      [] current = "medium" -> "hard"
      [] current = "hard" -> "hard"

\* mutant: the quiz of the result is always taken as the parent
trueParentQuizId_Direct(originalQuiz, id) == id

\* originalQuiz.parentQuizId || originalQuiz._id
trueParentQuizId(originalQuiz, id) ==
    IF originalQuiz.parentQuizId # 0 THEN originalQuiz.parentQuizId ELSE id

\* new this.quizModel({...}) of generateQuiz
NewQuiz(userId, dto, questions) ==
    [creatorId |-> userId,
     difficulty |-> dto.difficulty,
     numberOfQuestions |-> dto.numberOfQuestions,
     questions |-> questions,
     isPublic |-> FALSE,
     parentQuizId |-> 0,
     sourceResultId |-> 0,
     generationType |-> "none",
     weakTopicsFocus |-> <<>>]

\* new this.quizModel({...}) of generateAdaptiveQuiz, with the values it is
\* built from: wrongAnswers, shouldFocusOnWeakAreas, generationType,
\* targetDifficulty, trueParentQuizId, and the questions and weak topics
\* the generator service returned.  weakTopicsFocus is the topics if there
\* are any and is left undefined otherwise, which is <<>> here.
NewAdaptiveQuiz(userId, dto, result, originalQuiz, questions, topics) ==
    LET wrong == wrongAnswers(result, originalQuiz)
        shouldFocus == shouldFocusOnWeakAreas(dto.focusOnWeakAreas, wrong)
        targetDifficulty ==
            IF dto.useHarderDifficulty
            THEN getNextDifficulty(originalQuiz.difficulty)
            ELSE originalQuiz.difficulty
    IN [creatorId |-> userId,
        difficulty |-> targetDifficulty,
        numberOfQuestions |-> originalQuiz.numberOfQuestions,
        questions |-> questions,
        isPublic |-> FALSE,
        parentQuizId |-> trueParentQuizId(originalQuiz, result.quizId),
        sourceResultId |-> dto.resultSlug,
        generationType |->
            generationType(dto.useHarderDifficulty, shouldFocus),
        weakTopicsFocus |-> IF Len(topics) > 0 THEN topics ELSE <<>>]

\* generateQuiz(userId, {difficulty, numberOfQuestions, ...}); the users of
\* Users are stored, so the lookup in the users collection succeeds
GenerateQuiz(userId, dto, outcome) ==
    /\ outcome = "ok" => Len(quizzes) < MaxQuizzes
    /\ IF outcome = "generator-error"
       THEN QuizReturn("InternalServerError", 0) /\ UNCHANGED quizzes
       ELSE IF outcome = "save-error"
       THEN QuizReturn("SaveFailed", 0) /\ UNCHANGED quizzes
       ELSE /\ quizzes' = Append(quizzes,
                   NewQuiz(userId, dto, GeneratedQuestions))
            /\ QuizReturn("ok", Len(quizzes) + 1)
    /\ UNCHANGED <<store, nreq, pc, req, loc, ret, scoreVars, valVars,
                   adaptVars, genVars, readOut, deletedQuizzes>>

\* generateAdaptiveQuiz(userId, {resultSlug, focusOnWeakAreas,
\* useHarderDifficulty}), with a generator service that returns
\* GeneratedQuestions and no weak topics
GenerateAdaptiveQuiz(userId, dto, outcome) ==
    /\ outcome = "ok" => Len(quizzes) < MaxQuizzes
    /\ IF dto.resultSlug \notin 1..Len(results)
       THEN QuizReturn("NotFound", 0) /\ UNCHANGED quizzes
       ELSE IF results[dto.resultSlug].userId # userId
       THEN QuizReturn("Forbidden", 0) /\ UNCHANGED quizzes
       ELSE IF results[dto.resultSlug].quizId \notin 1..Len(quizzes)
       THEN QuizReturn("BadRequest", 0) /\ UNCHANGED quizzes
       ELSE IF outcome = "generator-error"
       THEN QuizReturn("InternalServerError", 0) /\ UNCHANGED quizzes
       ELSE IF outcome = "save-error"
       THEN QuizReturn("SaveFailed", 0) /\ UNCHANGED quizzes
       ELSE /\ quizzes' = Append(quizzes,
                   NewAdaptiveQuiz(userId, dto, results[dto.resultSlug],
                                   quizzes[results[dto.resultSlug].quizId],
                                   GeneratedQuestions, <<>>))
            /\ QuizReturn("ok", Len(quizzes) + 1)
    /\ UNCHANGED <<store, nreq, pc, req, loc, ret, scoreVars, valVars,
                   adaptVars, genVars, readOut, deletedQuizzes>>

\* updateQuiz(quizSlug, userId, updateQuizDto)
UpdateQuiz(userId, quizSlug, updateQuizDto, saved) ==
    /\ IF quizSlug \notin 1..Len(quizzes)
       THEN QuizReturn("NotFound", 0) /\ UNCHANGED quizzes
       ELSE IF quizzes[quizSlug].creatorId # userId
       THEN QuizReturn("Forbidden", 0) /\ UNCHANGED quizzes
       ELSE IF ~saved
       THEN QuizReturn("SaveFailed", 0) /\ UNCHANGED quizzes
       ELSE /\ quizzes' =
                   IF updateQuizDto.defined
                   THEN [quizzes EXCEPT
                            ![quizSlug].isPublic = updateQuizDto.isPublic]
                   ELSE quizzes
            /\ QuizReturn("ok", quizSlug)
    /\ UNCHANGED <<store, nreq, pc, req, loc, ret, scoreVars, valVars,
                   adaptVars, genVars, readOut, deletedQuizzes>>

\* toggleVisibility(quizSlug, userId)
ToggleVisibility(userId, quizSlug, saved) ==
    /\ IF quizSlug \notin 1..Len(quizzes)
       THEN QuizReturn("NotFound", 0) /\ UNCHANGED quizzes
       ELSE IF quizzes[quizSlug].creatorId # userId
       THEN QuizReturn("Forbidden", 0) /\ UNCHANGED quizzes
       ELSE IF quizzes[quizSlug].parentQuizId # 0
       THEN QuizReturn("BadRequest", 0) /\ UNCHANGED quizzes
       ELSE IF ~saved
       THEN QuizReturn("SaveFailed", 0) /\ UNCHANGED quizzes
       ELSE /\ quizzes' = [quizzes EXCEPT ![quizSlug].isPublic = ~@]
            /\ QuizReturn("ok", quizSlug)
    /\ UNCHANGED <<store, nreq, pc, req, loc, ret, scoreVars, valVars,
                   adaptVars, genVars, readOut, deletedQuizzes>>

\* the completed attempt of userId on a quiz and the Result of its submit
CompletedAttempt(userId, quizId, answers) ==
    [userId |-> userId, quizId |-> quizId, answers |-> answers,
     status |-> "completed", completedAt |-> TRUE]

\* an attempt of userId on a stored quiz, from startAttempt to submitAttempt
\* with no other request in between
CompleteAttempt(userId, quizSlug, answers) ==
    /\ Len(results) < MaxResults
    /\ quizSlug \in 1..Len(quizzes)
    /\ ~NoAccess(quizzes[quizSlug], userId)
    /\ LET quiz == quizzes[quizSlug]
           doc == CompletedAttempt(userId, quizSlug, answers)
           graded == calculateScore(quiz.questions, answers)
       IN /\ attempts' = Append(attempts, doc)
          /\ results' = Append(results,
                               NewResult(Len(attempts) + 1, doc, quiz, graded))
    /\ QuizReturn("ok", Len(results) + 1)
    /\ UNCHANGED <<quizzes, nreq, pc, req, loc, ret, scoreVars, valVars,
                   adaptVars, genVars, readOut, deletedQuizzes>>

(***************************************************************************)
(* Generation requests step by step: QuizService.generateQuiz and          *)
(* generateAdaptiveQuiz with the chat completions OpenAIService requests   *)
(* for them, and extractWeakTopics on its own.  A reply of the generator   *)
(* is a record: its kind tells how far the handling of the reply gets      *)
(* ("error": create() rejects; "no-content": the message has no content;   *)
(* "unparsable": JSON.parse throws, or the parsed value has no fields;     *)
(* "no-field": the object lacks the field that is read; "json": the field  *)
(* is there), its value is the field.                                      *)
(***************************************************************************)
Reply(kind, value) == [kind |-> kind, value |-> value]

FailedReplies ==
    {Reply(k, Arr(<<>>)) : k \in {"error", "no-content", "unparsable"}}

\* replies to the prompt of extractWeakTopics; the field read is `topics`
TopicReplies ==
    FailedReplies
    \cup {Reply("no-field", Arr(<<>>))}
    \cup {Reply("json", v) : v \in {Arr(<<>>), Arr(<<"closures">>), NotArr}}

\* a candidate question the validator keeps and one it skips
KeptQuestion ==
    [questionText |-> Str(<<"Q1">>), questionType |-> Str(mcq),
     options |-> Arr(<<Str(<<"a">>), Str(<<"b">>)>>),
     correctAnswers |-> Arr(<<Num(0, 1)>>),
     explanation |-> Str(<<"why">>)]
SkippedQuestion == [KeptQuestion EXCEPT !.correctAnswers = Arr(<<>>)]

\* replies to the prompt of generateQuiz and generateAdaptiveQuiz; the
\* field read is `questions`
QuestionReplies ==
    FailedReplies
    \cup {Reply("no-field", Arr(<<>>)), Reply("json", NotArr)}
    \cup {Reply("json", Arr(l)) :
             l \in UNION {[1..n -> {KeptQuestion, SkippedQuestion}] :
                             n \in 0..MaxCandidates}}

\* the questionTypes of the requests of this specification
questionTypes == {mcq, trueFalse, multipleCorrect}

NoGenReq == [op |-> "none"]
NoGenParams == [wrongAnswers |-> <<>>]
NoGenQuiz == [creatorId |-> "none"]
NoPrompt ==
    [difficulty |-> "none", numberOfQuestions |-> 0, instruction |-> "none",
     numberOfWeakQuestions |-> 0, numberOfNewQuestions |-> 0]

\* no generation request is being served
GenIdle ==
    /\ genReq = NoGenReq
    /\ genPc = "idle"
    /\ genParams = NoGenParams
    /\ genCalls = <<>>
    /\ genReplies = <<>>
    /\ weakTopics = Arr(<<>>)
    /\ genQuiz = NoGenQuiz
    /\ genPrompt = NoPrompt

\* this.openai.chat.completions.create, tracked under operation
Create(operation) == genCalls' = Append(genCalls, operation)

\* the request ends with a response and nothing stored
GenThrow(kind) ==
    /\ QuizReturn(kind, 0)
    /\ genPc' = "done"
    /\ UNCHANGED quizzes

\* mutant: extractWeakTopics asks the generator whatever it is given
returnsEarly_Never(wrong) == FALSE

\* extractWeakTopics: if (wrongAnswers.length === 0) return []
returnsEarly(wrong) == Len(wrong) = 0

\* how an awaited call ends
Returned(value) == [threw |-> FALSE, value |-> value]
Thrown == [threw |-> TRUE, value |-> Arr(<<>>)]

\* mutant: the catch block of extractWeakTopics rethrows
extractWeakTopics_Rethrow(reply) ==
    IF reply.kind \in {"error", "unparsable"}
    THEN Thrown
    ELSE Returned(IF reply.kind = "json" THEN reply.value ELSE Arr(<<>>))

\* extractWeakTopics after its chat completion: parsed.topics || [], and []
\* from `if (!content)` and from the catch block
extractWeakTopics(reply) ==
    Returned(IF reply.kind = "json" THEN reply.value ELSE Arr(<<>>))

\* what validateAndFormatQuestions keeps of parsedResponse.questions || []
validQuestionsOf(reply) ==
    LET Kept(q) == SkipReason(q, questionTypes) = "none"
        kept == SelectSeq(reply.value.items, Kept)
    IN [i \in 1..Len(kept) |-> FormatQuestion(kept[i])]

\* mutant: a reply without valid questions is taken as it is
generationFails_OnlyUpstream(reply) ==
    reply.kind \in {"error", "no-content", "unparsable"}

\* the try block of OpenAIService.generateQuiz and generateAdaptiveQuiz
\* throws after the reply: create() rejected, no content, JSON.parse threw,
\* or validateAndFormatQuestions threw for want of a valid question
generationFails(reply) ==
    \/ reply.kind \in {"error", "no-content", "unparsable"}
    \/ validQuestionsOf(reply) = <<>>

\* mutant: the request is passed on as it came
GenerateAdaptiveQuizParams_AsRequested(dto, result, originalQuiz) ==
    [originalDifficulty |-> originalQuiz.difficulty,
     numberOfQuestions |-> originalQuiz.numberOfQuestions,
     wrongAnswers |-> wrongAnswers(result, originalQuiz),
     focusOnWeakAreas |-> dto.focusOnWeakAreas,
     useHarderDifficulty |-> dto.useHarderDifficulty]

\* the params QuizService.generateAdaptiveQuiz hands to OpenAIService
GenerateAdaptiveQuizParams(dto, result, originalQuiz) ==
    LET wrong == wrongAnswers(result, originalQuiz)
    IN [originalDifficulty |-> originalQuiz.difficulty,
        numberOfQuestions |-> originalQuiz.numberOfQuestions,
        wrongAnswers |-> wrong,
        focusOnWeakAreas |->
            shouldFocusOnWeakAreas(dto.focusOnWeakAreas, wrong),
        useHarderDifficulty |-> dto.useHarderDifficulty]

\* mutant: the generator service raises the difficulty whatever was asked
getNextDifficultyOpenAI_Always(currentDifficulty, shouldIncrease) ==
    CASE currentDifficulty = "easy" -> "medium"
      [] currentDifficulty = "medium" -> "hard"
      [] currentDifficulty = "hard" -> "hard"

\* OpenAIService.getNextDifficulty(currentDifficulty, shouldIncrease)
getNextDifficultyOpenAI(currentDifficulty, shouldIncrease) ==
    IF ~shouldIncrease
    THEN currentDifficulty
    ELSE CASE currentDifficulty = "easy" -> "medium"
           [] currentDifficulty = "medium" -> "hard"
           [] currentDifficulty = "hard" -> "hard"

\* Math.ceil(num / den) for den > 0
Ceil(num, den) == -((-num) \div den)

\* mutant: the share of weak-area questions is rounded down
numberOfWeakQuestions_Floor(numberOfQuestions) == (numberOfQuestions * 3) \div 4

\* Math.ceil(numberOfQuestions * 0.75); 0.75 is 3/4 exactly and the product
\* is exact in double precision for the counts a request can carry
numberOfWeakQuestions(numberOfQuestions) == Ceil(numberOfQuestions * 3, 4)

\* buildPrompt, the prompt of generateQuiz: count and difficulty, and no
\* instruction about earlier answers
buildPrompt(difficulty, numberOfQuestions) ==
    [difficulty |-> difficulty, numberOfQuestions |-> numberOfQuestions,
     instruction |-> "none",
     numberOfWeakQuestions |-> 0, numberOfNewQuestions |-> 0]

\* mutant: the weak-area instruction is written whenever focus is requested
buildAdaptivePrompt_FocusOnly(difficulty, numberOfQuestions, wrong, topics, focusOnWeakAreas) ==
    IF focusOnWeakAreas
    THEN [difficulty |-> difficulty, numberOfQuestions |-> numberOfQuestions,
          instruction |-> "weak-areas",
          numberOfWeakQuestions |-> numberOfWeakQuestions(numberOfQuestions),
          numberOfNewQuestions |->
              numberOfQuestions - numberOfWeakQuestions(numberOfQuestions)]
    ELSE [difficulty |-> difficulty, numberOfQuestions |-> numberOfQuestions,
          instruction |-> IF Len(wrong) > 0 THEN "reinforce" ELSE "none",
          numberOfWeakQuestions |-> 0, numberOfNewQuestions |-> 0]

\* buildAdaptivePrompt: what the prompt says of the difficulty, the number
\* of questions and weakAreasContext, which is the IMPORTANT FOCUS AREAS
\* text with its two counts ("weak-areas"), the sentence about incorrect
\* answers in a previous quiz ("reinforce"), or empty ("none")
buildAdaptivePrompt(difficulty, numberOfQuestions, wrong, topics, focusOnWeakAreas) ==
    IF focusOnWeakAreas /\ Len(topics) > 0
    THEN [difficulty |-> difficulty, numberOfQuestions |-> numberOfQuestions,
          instruction |-> "weak-areas",
          numberOfWeakQuestions |-> numberOfWeakQuestions(numberOfQuestions),
          numberOfNewQuestions |->
              numberOfQuestions - numberOfWeakQuestions(numberOfQuestions)]
    ELSE [difficulty |-> difficulty, numberOfQuestions |-> numberOfQuestions,
          instruction |-> IF Len(wrong) > 0 THEN "reinforce" ELSE "none",
          numberOfWeakQuestions |-> 0, numberOfNewQuestions |-> 0]

\* the generation prompt OpenAIService.generateAdaptiveQuiz sends
AdaptivePrompt(params, topics) ==
    buildAdaptivePrompt(
        getNextDifficultyOpenAI(params.originalDifficulty,
                                params.useHarderDifficulty),
        params.numberOfQuestions, params.wrongAnswers, topics,
        params.focusOnWeakAreas)

\* OpenAIService.generateAdaptiveQuiz up to its first await: the call of
\* extractWeakTopics if (focusOnWeakAreas && wrongAnswers.length > 0), which
\* returns at once or asks the generator; else the generation prompt
AdaptiveFirstCall(params) ==
    IF /\ params.focusOnWeakAreas
       /\ Len(params.wrongAnswers) > 0
       /\ ~returnsEarly(params.wrongAnswers)
    THEN /\ Create("extract_weak_topics")
         /\ genPc' = "extract"
         /\ UNCHANGED genPrompt
    ELSE /\ Create("generate_adaptive_quiz")
         /\ genPrompt' = AdaptivePrompt(params, <<>>)
         /\ genPc' = "generate"

\* generateQuiz(userId, dto) up to the chat completion; the users of Users
\* are stored, so the lookup in the users collection succeeds
GenStartQuiz ==
    /\ genPc = "start"
    /\ genReq.op = "generateQuiz"
    /\ genParams' = genReq.dto
    /\ Create("generate_quiz")
    /\ genPrompt' = buildPrompt(genReq.dto.difficulty,
                                genReq.dto.numberOfQuestions)
    /\ genPc' = "generate"
    /\ UNCHANGED <<store, nreq, pc, req, loc, ret, scoreVars, valVars,
                   quizVars, adaptVars, readOut, deletedQuizzes, genReq,
                   genReplies, weakTopics, genQuiz>>

\* generateAdaptiveQuiz(userId, dto) up to the first chat completion
GenStartAdaptive ==
    /\ genPc = "start"
    /\ genReq.op = "generateAdaptiveQuiz"
    /\ LET dto == genReq.dto
       IN IF dto.resultSlug \notin 1..Len(results)
          THEN GenThrow("NotFound")
               /\ UNCHANGED <<genParams, genCalls, genPrompt>>
          ELSE IF results[dto.resultSlug].userId # genReq.userId
          THEN GenThrow("Forbidden")
               /\ UNCHANGED <<genParams, genCalls, genPrompt>>
          ELSE IF results[dto.resultSlug].quizId \notin 1..Len(quizzes)
          THEN GenThrow("BadRequest")
               /\ UNCHANGED <<genParams, genCalls, genPrompt>>
          ELSE LET params ==
                       GenerateAdaptiveQuizParams(dto, results[dto.resultSlug],
                           quizzes[results[dto.resultSlug].quizId])
               IN /\ genParams' = params
                  /\ AdaptiveFirstCall(params)
                  /\ UNCHANGED quizVars
    /\ UNCHANGED <<store, nreq, pc, req, loc, ret, scoreVars, valVars,
                   adaptVars, readOut, deletedQuizzes, genReq, genReplies,
                   weakTopics, genQuiz>>

\* extractWeakTopics(wrongAnswers, ...) called on its own, up to its return
\* or its chat completion
GenStartExtract ==
    /\ genPc = "start"
    /\ genReq.op = "extractWeakTopics"
    /\ IF returnsEarly(genReq.wrongAnswers)
       THEN genPc' = "done" /\ UNCHANGED genCalls
       ELSE Create("extract_weak_topics") /\ genPc' = "extract"
    /\ UNCHANGED <<store, nreq, pc, req, loc, ret, scoreVars, valVars,
                   quizVars, adaptVars, readOut, deletedQuizzes, genReq,
                   genParams, genReplies, weakTopics, genQuiz, genPrompt>>

\* the generator replies to the prompt of extractWeakTopics; in
\* generateAdaptiveQuiz the topics are logged with weakTopics.join, which
\* throws into its catch block if they are no array, and the generation
\* prompt is sent
ExtractReply(reply) ==
    /\ genPc = "extract"
    /\ genReplies' = Append(genReplies, reply)
    /\ IF extractWeakTopics(reply).threw
       THEN GenThrow("InternalServerError")
            /\ UNCHANGED <<weakTopics, genCalls, genPrompt>>
       ELSE /\ weakTopics' = extractWeakTopics(reply).value
            /\ IF genReq.op = "extractWeakTopics"
               THEN /\ genPc' = "done"
                    /\ UNCHANGED <<quizVars, genCalls, genPrompt>>
               ELSE IF ~weakTopics'.isArray
               THEN GenThrow("InternalServerError")
                    /\ UNCHANGED <<genCalls, genPrompt>>
               ELSE /\ Create("generate_adaptive_quiz")
                    /\ genPrompt' =
                           AdaptivePrompt(genParams,
                                          extractWeakTopics(reply).value.items)
                    /\ genPc' = "generate"
                    /\ UNCHANGED quizVars
    /\ UNCHANGED <<store, nreq, pc, req, loc, ret, scoreVars, valVars,
                   adaptVars, readOut, deletedQuizzes, genReq, genParams,
                   genQuiz>>

\* the quiz document QuizService builds from the questions it got back
GenDocument(questions) ==
    IF genReq.op = "generateQuiz"
    THEN NewQuiz(genReq.userId, genReq.dto, questions)
    ELSE NewAdaptiveQuiz(genReq.userId, genReq.dto,
                         results[genReq.dto.resultSlug],
                         quizzes[results[genReq.dto.resultSlug].quizId],
                         questions, weakTopics.items)

\* the generator replies to the generation prompt: OpenAIService parses and
\* validates, and QuizService (generateAdaptiveQuiz after its own check for
\* an empty list) builds the document and calls save()
GenerateReply(reply) ==
    /\ genPc = "generate"
    /\ genReplies' = Append(genReplies, reply)
    /\ IF generationFails(reply)
       THEN GenThrow("InternalServerError") /\ UNCHANGED genQuiz
       ELSE IF genReq.op = "generateAdaptiveQuiz"
               /\ Len(validQuestionsOf(reply)) = 0
       THEN GenThrow("InternalServerError") /\ UNCHANGED genQuiz
       ELSE /\ genQuiz' = GenDocument(validQuestionsOf(reply))
            /\ genPc' = "save"
            /\ UNCHANGED quizVars
    /\ UNCHANGED <<store, nreq, pc, req, loc, ret, scoreVars, valVars,
                   adaptVars, readOut, deletedQuizzes, genReq, genParams,
                   genCalls, weakTopics, genPrompt>>

\* quiz.save() resolves or rejects
GenSave(saved) ==
    /\ genPc = "save"
    /\ IF saved
       THEN /\ quizzes' = Append(quizzes, genQuiz)
            /\ QuizReturn("ok", Len(quizzes) + 1)
       ELSE QuizReturn("SaveFailed", 0) /\ UNCHANGED quizzes
    /\ genPc' = "done"
    /\ UNCHANGED <<store, nreq, pc, req, loc, ret, scoreVars, valVars,
                   adaptVars, readOut, deletedQuizzes, genReq, genParams,
                   genCalls, genReplies, weakTopics, genQuiz, genPrompt>>

(***************************************************************************)
(* Specifications                                                          *)
(***************************************************************************)
Init ==
    /\ attempts = <<>>
    /\ results = <<>>
    /\ nreq = 0
    /\ pc = [p \in Procs |-> "idle"]
    /\ req = [p \in Procs |-> NoReq]
    /\ loc = [p \in Procs |-> NoDoc]
    /\ ret = [p \in Procs |-> NoRet]
    /\ scoreIn = NoScoreIn
    /\ scoreOut = NoScoreOut
    /\ ValidatorIdle
    /\ QuizIdle
    /\ GenIdle
    /\ NothingRead

Step(p) ==
    \/ \E u \in Users, q \in RequestedSlugs : StartFind(p, u, q)
    \/ StartSave(p)
    \/ StartSaveFail(p)
    \/ \E u \in Users, a \in RequestedAttempts, qi \in 0..MaxQIndex, sel \in Selections :
          AnswerFind(p, u, a, qi, sel)
    \/ AnswerSave(p)
    \/ AnswerSaveFail(p)
    \/ \E u \in Users, a \in RequestedAttempts : SubmitFind(p, u, a)
    \/ SubmitSaveAttempt(p)
    \/ SubmitSaveAttemptFail(p)
    \/ SubmitSaveResult(p)
    \/ SubmitSaveResultFail(p)
    \/ \E u \in Users, a \in RequestedAttempts : AbandonFind(p, u, a)
    \/ AbandonSave(p)
    \/ AbandonSaveFail(p)
    \/ Respond(p)

Next == \E p \in Procs : Step(p)

Spec == Init /\ [][Next]_vars

\* one request at a time: a single process serves every request
SeqNext == Step("p1")

SeqSpec == Init /\ [][SeqNext]_vars

\* ResultSpec: one request at a time, to AttemptService or to
\* ResultService.toggleResultVisibility
ResultNext ==
    \/ SeqNext
    \/ \E u \in Users, r \in RequestedResultSlugs : ToggleFind("p1", u, r)
    \/ ToggleSave("p1")
    \/ ToggleSaveFail("p1")

ResultSpec == Init /\ [][ResultNext]_vars

\* ReadSpec: one request at a time to AttemptService, and the reads
\* getQuizById and getAttemptById between the requests
ReadNext ==
    \/ SeqNext
    \/ \E u \in Users \cup {NoUser}, q \in RequestedSlugs : GetQuizById(u, q)
    \/ \E u \in Users, a \in RequestedAttempts : GetAttemptById(u, a)

ReadSpec == Init /\ [][ReadNext]_vars

\* DeleteSpec: one request at a time, to AttemptService or to
\* QuizService.deleteQuiz
DeleteNext ==
    \/ SeqNext
    \/ \E u \in Users, q \in RequestedSlugs : DeleteFind("p1", u, q)
    \/ \E deleted \in BOOLEAN : DeleteOne("p1", deleted)

DeleteSpec == Init /\ [][DeleteNext]_vars

\* calculateScore applied once to a drawn quiz and answer array
ScoreInit ==
    /\ attempts = <<>>
    /\ results = <<>>
    /\ nreq = 0
    /\ pc = [p \in Procs |-> "idle"]
    /\ req = [p \in Procs |-> NoReq]
    /\ loc = [p \in Procs |-> NoDoc]
    /\ ret = [p \in Procs |-> NoRet]
    /\ scoreIn \in [questions : ScoreQuestions, answers : ScoreAnswers]
    /\ scoreOut = NoScoreOut
    /\ ValidatorIdle
    /\ QuizIdle
    /\ GenIdle
    /\ NothingRead

Score ==
    /\ scoreOut = NoScoreOut
    /\ scoreOut' = calculateScore(scoreIn.questions, scoreIn.answers)
    /\ UNCHANGED <<store, nreq, pc, req, loc, ret, scoreIn, valVars, quizVars, adaptVars,
                   genVars, readOut, deletedQuizzes>>

ScoreNext == Score

ScoreSpec == ScoreInit /\ [][ScoreNext]_vars

(***************************************************************************)
(* ValidateSpec: validateAndFormatQuestions applied to a drawn list of     *)
(* candidates.  The candidates are a well-formed question of each type     *)
(* and every record that differs from one of them in a single field.       *)
(***************************************************************************)
BaseQuestions ==
    { [questionText |-> Str(<<"Q1">>), questionType |-> Str(mcq),
       options |-> Arr(<<Str(<<"a">>), Str(<<"b">>)>>),
       correctAnswers |-> Arr(<<Num(0, 1)>>),
       explanation |-> Str(<<"why">>)],
      [questionText |-> Str(<<"Q2">>), questionType |-> Str(trueFalse),
       options |-> Arr(<<Str(<<"a">>), Str(<<"b">>)>>),
       correctAnswers |-> Arr(<<Num(1, 1)>>),
       explanation |-> Str(<<"why">>)],
      [questionText |-> Str(<<"Q3">>), questionType |-> Str(multipleCorrect),
       options |-> Arr(<<Str(<<"a">>), Str(<<"b">>)>>),
       correctAnswers |-> Arr(<<Num(0, 1), Num(1, 1)>>),
       explanation |-> Str(<<"why">>)] }

TypeValues ==
    {Str(mcq), Str(trueFalse), Str(multipleCorrect), Str(<<"essay">>), Undefined}

OptionsValues ==
    { Arr(<<Str(<<"a">>), Str(<<"b">>), Str(<<"c">>)>>),
      Arr(<<Str(<<"a">>)>>),
      Arr(<<Str(<<"a">>), Str(<<" ", "A">>)>>),
      Arr(<<Str(<<"a">>), Str(<<"a", " ">>)>>),
      Arr(<<Str(<<"a">>), Str(<<>>)>>),
      Arr(<<Str(<<"a">>), Str(<<" ">>)>>),
      Arr(<<Str(<<"a">>), Num(5, 1)>>),
      NotArr }

CorrectAnswersValues ==
    { Arr(<<Num(0, 1)>>),
      Arr(<<Num(0, 1), Num(1, 1)>>),
      Arr(<<Num(2, 1)>>),
      Arr(<<Num(-1, 1)>>),
      Arr(<<Num(1, 1), Num(1, 1)>>),
      Arr(<<Num(1, 2)>>),
      Arr(<<Str(<<"0">>)>>),
      Arr(<<>>),
      NotArr }

ExplanationValues == {Str(<<>>), Undefined}

Candidates ==
    BaseQuestions
    \cup {[b EXCEPT !.questionType = v] : b \in BaseQuestions, v \in TypeValues}
    \cup {[b EXCEPT !.options = v] : b \in BaseQuestions, v \in OptionsValues}
    \cup {[b EXCEPT !.correctAnswers = v] :
             b \in BaseQuestions, v \in CorrectAnswersValues}
    \cup {[b EXCEPT !.explanation = v] :
             b \in BaseQuestions, v \in ExplanationValues}

CandidateLists == UNION {[1..n -> Candidates] : n \in 0..MaxCandidates}

\* GenerateQuizDto.questionTypes: a non-empty array of the three types
RequestedTypeSets == { {mcq, trueFalse, multipleCorrect}, {mcq, trueFalse} }

ValidateInit ==
    /\ attempts = <<>>
    /\ results = <<>>
    /\ nreq = 0
    /\ pc = [p \in Procs |-> "idle"]
    /\ req = [p \in Procs |-> NoReq]
    /\ loc = [p \in Procs |-> NoDoc]
    /\ ret = [p \in Procs |-> NoRet]
    /\ scoreIn = NoScoreIn
    /\ scoreOut = NoScoreOut
    /\ valIn \in [questions : CandidateLists,
                  requestedQuestionTypes : RequestedTypeSets]
    /\ valIndex = 0
    /\ validQuestions = <<>>
    /\ valOut = NoValOut
    /\ QuizIdle
    /\ GenIdle
    /\ NothingRead

\* one iteration of the for loop: the candidate is skipped or pushed
ValidateQuestion ==
    /\ valOut = NoValOut
    /\ valIndex < Len(valIn.questions)
    /\ LET q == valIn.questions[valIndex + 1]
       IN validQuestions' =
              IF SkipReason(q, valIn.requestedQuestionTypes) = "none"
              THEN Append(validQuestions, FormatQuestion(q))
              ELSE validQuestions
    /\ valIndex' = valIndex + 1
    /\ UNCHANGED <<store, nreq, pc, req, loc, ret, scoreVars, valIn, valOut,
                   quizVars, adaptVars, genVars, readOut, deletedQuizzes>>

\* mutant: the operation fails as soon as one candidate was skipped
ValidateThrow_AnySkipped ==
    /\ valOut = NoValOut
    /\ valIndex = Len(valIn.questions)
    /\ Len(validQuestions) < Len(valIn.questions) \/ Len(validQuestions) = 0
    /\ valOut' = [kind |-> "NoValidQuestions", questions |-> <<>>]
    /\ UNCHANGED <<store, nreq, pc, req, loc, ret, scoreVars,
                   valIn, valIndex, validQuestions, quizVars,
                   adaptVars, genVars, readOut, deletedQuizzes>>

\* after the loop: throw new Error('No valid questions generated. ...')
ValidateThrow ==
    /\ valOut = NoValOut
    /\ valIndex = Len(valIn.questions)
    /\ Len(validQuestions) = 0
    /\ valOut' = [kind |-> "NoValidQuestions", questions |-> <<>>]
    /\ UNCHANGED <<store, nreq, pc, req, loc, ret, scoreVars,
                   valIn, valIndex, validQuestions, quizVars,
                   adaptVars, genVars, readOut, deletedQuizzes>>

\* after the loop: return validQuestions
ValidateReturn ==
    /\ valOut = NoValOut
    /\ valIndex = Len(valIn.questions)
    /\ Len(validQuestions) # 0
    /\ valOut' = [kind |-> "ok", questions |-> validQuestions]
    /\ UNCHANGED <<store, nreq, pc, req, loc, ret, scoreVars,
                   valIn, valIndex, validQuestions, quizVars,
                   adaptVars, genVars, readOut, deletedQuizzes>>

ValidateNext == ValidateQuestion \/ ValidateThrow \/ ValidateReturn

ValidateSpec == ValidateInit /\ [][ValidateNext]_vars

(***************************************************************************)
(* QuizSpec: the handlers of QuizService, one call at a time, and attempts *)
(* that produce the Results adaptive generation starts from.               *)
(***************************************************************************)
QuizInit ==
    /\ attempts = <<>>
    /\ results = <<>>
    /\ nreq = 0
    /\ pc = [p \in Procs |-> "idle"]
    /\ req = [p \in Procs |-> NoReq]
    /\ loc = [p \in Procs |-> NoDoc]
    /\ ret = [p \in Procs |-> NoRet]
    /\ scoreIn = NoScoreIn
    /\ scoreOut = NoScoreOut
    /\ ValidatorIdle
    /\ QuizIdle
    /\ GenIdle
    /\ NothingRead

\* QuizSpec draws one difficulty for generateQuiz and one answer array (the
\* first answer wrong) for the attempts; AdaptiveSpec draws them all
QuizDifficulties == {"medium"}
QuizDtos ==
    {GenerateQuizDto(d, Len(GeneratedQuestions)) : d \in QuizDifficulties}
QuizAnswers ==
    { << [questionIndex |-> 0, selectedAnswers |-> <<0>>],
         [questionIndex |-> 1, selectedAnswers |-> <<0>>] >> }

QuizNext ==
    \/ \E u \in Users, dto \in QuizDtos, o \in GenerationOutcomes :
          GenerateQuiz(u, dto, o)
    \/ \E u \in Users, dto \in GenerateAdaptiveQuizDtos,
          o \in GenerationOutcomes :
          GenerateAdaptiveQuiz(u, dto, o)
    \/ \E u \in Users, q \in RequestedQuizzes, dto \in UpdateQuizDtos,
          saved \in BOOLEAN :
          UpdateQuiz(u, q, dto, saved)
    \/ \E u \in Users, q \in RequestedQuizzes, saved \in BOOLEAN :
          ToggleVisibility(u, q, saved)
    \/ \E u \in Users, q \in RequestedQuizzes, a \in QuizAnswers :
          CompleteAttempt(u, q, a)

QuizSpec == QuizInit /\ [][QuizNext]_vars

(***************************************************************************)
(* AdaptiveSpec: the adaptive quiz document built for a drawn request on a *)
(* drawn Result and the quiz it was taken on (a root quiz, or an adaptive  *)
(* quiz whose parent is quiz 1).                                           *)
(***************************************************************************)
AdaptiveQuizzes ==
    {[NewQuiz(u, GenerateQuizDto(d, Len(GeneratedQuestions)),
              GeneratedQuestions) EXCEPT !.parentQuizId = parent] :
        u \in Users, d \in Difficulties, parent \in {0, 1}}

AdaptiveInit ==
    /\ attempts = <<>>
    /\ results = <<>>
    /\ nreq = 0
    /\ pc = [p \in Procs |-> "idle"]
    /\ req = [p \in Procs |-> NoReq]
    /\ loc = [p \in Procs |-> NoDoc]
    /\ ret = [p \in Procs |-> NoRet]
    /\ scoreIn = NoScoreIn
    /\ scoreOut = NoScoreOut
    /\ ValidatorIdle
    /\ quizzes = <<>>
    /\ quizRet = NoRet
    /\ \E quiz \in AdaptiveQuizzes, answers \in TakenAnswers,
          f, h \in BOOLEAN :
          adaptIn = [dto |-> [resultSlug |-> 1, focusOnWeakAreas |-> f,
                              useHarderDifficulty |-> h],
                     result |->
                        NewResult(1, CompletedAttempt("u1", 2, answers), quiz,
                                  calculateScore(quiz.questions, answers)),
                     originalQuiz |-> quiz]
    /\ adaptOut = NoAdaptOut
    /\ GenIdle
    /\ NothingRead

Adapt ==
    /\ adaptOut = NoAdaptOut
    /\ adaptOut' = NewAdaptiveQuiz(adaptIn.result.userId, adaptIn.dto,
                                   adaptIn.result, adaptIn.originalQuiz,
                                   GeneratedQuestions, <<>>)
    /\ UNCHANGED <<store, nreq, pc, req, loc, ret, scoreVars, valVars,
                   quizVars, adaptIn, genVars, readOut, deletedQuizzes>>

AdaptiveNext == Adapt

AdaptiveSpec == AdaptiveInit /\ [][AdaptiveNext]_vars

(***************************************************************************)
(* GenerationSpec: one generation request from its arrival to its          *)
(* response.  The adaptive requests start from a store with a root quiz,   *)
(* the quiz a Result was obtained on (unless it was deleted since) and     *)
(* that Result.                                                            *)
(***************************************************************************)
RootQuiz ==
    NewQuiz("u1", GenerateQuizDto("easy", Len(GeneratedQuestions)),
            GeneratedQuestions)

\* the wrong-answer lists extractWeakTopics is called with on its own
ExtractInputs ==
    {wrongAnswers(NewResult(1, CompletedAttempt("u1", 1, answers), RootQuiz,
                            calculateScore(RootQuiz.questions, answers)),
                  RootQuiz) : answers \in TakenAnswers}

GenerationInit ==
    /\ attempts = <<>>
    /\ nreq = 0
    /\ pc = [p \in Procs |-> "idle"]
    /\ req = [p \in Procs |-> NoReq]
    /\ loc = [p \in Procs |-> NoDoc]
    /\ ret = [p \in Procs |-> NoRet]
    /\ scoreIn = NoScoreIn
    /\ scoreOut = NoScoreOut
    /\ ValidatorIdle
    /\ quizRet = NoRet
    /\ adaptIn = NoAdaptIn
    /\ adaptOut = NoAdaptOut
    /\ genPc = "start"
    /\ genParams = NoGenParams
    /\ genCalls = <<>>
    /\ genReplies = <<>>
    /\ weakTopics = Arr(<<>>)
    /\ genQuiz = NoGenQuiz
    /\ genPrompt = NoPrompt
    /\ NothingRead
    /\ \/ /\ quizzes = <<>>
          /\ results = <<>>
          /\ \E u \in Users, d \in Difficulties, n \in 1..MaxCandidates :
                genReq = [op |-> "generateQuiz", userId |-> u,
                          dto |-> GenerateQuizDto(d, n)]
       \/ /\ quizzes = <<>>
          /\ results = <<>>
          /\ \E wrong \in ExtractInputs :
                genReq = [op |-> "extractWeakTopics", wrongAnswers |-> wrong]
       \/ \E quiz \in AdaptiveQuizzes, answers \in TakenAnswers,
             stored \in BOOLEAN, u \in Users, slug \in 1..2,
             f, h \in BOOLEAN :
             /\ quizzes = IF stored THEN <<RootQuiz, quiz>> ELSE <<RootQuiz>>
             /\ results =
                   << NewResult(1, CompletedAttempt("u1", 2, answers), quiz,
                                calculateScore(quiz.questions, answers)) >>
             /\ genReq = [op |-> "generateAdaptiveQuiz", userId |-> u,
                          dto |-> [resultSlug |-> slug,
                                   focusOnWeakAreas |-> f,
                                   useHarderDifficulty |-> h]]

GenerationNext ==
    \/ GenStartQuiz
    \/ GenStartAdaptive
    \/ GenStartExtract
    \/ \E reply \in TopicReplies : ExtractReply(reply)
    \/ \E reply \in QuestionReplies : GenerateReply(reply)
    \/ \E saved \in BOOLEAN : GenSave(saved)

GenerationSpec == GenerationInit /\ [][GenerationNext]_vars

(***************************************************************************)
(* PromptSpec: the generation prompt of OpenAIService.generateAdaptiveQuiz *)
(* for drawn parameters and weak topics.  numberOfQuestions is the count   *)
(* of the original quiz, which GenerateQuizDto keeps between 1 and 20;     *)
(* topics are there only if they were extracted, that is with the focus    *)
(* flag on and a wrong answer.                                             *)
(***************************************************************************)
MinNumberOfQuestions == 1
MaxNumberOfQuestions == 20

PromptInit ==
    /\ attempts = <<>>
    /\ results = <<>>
    /\ nreq = 0
    /\ pc = [p \in Procs |-> "idle"]
    /\ req = [p \in Procs |-> NoReq]
    /\ loc = [p \in Procs |-> NoDoc]
    /\ ret = [p \in Procs |-> NoRet]
    /\ scoreIn = NoScoreIn
    /\ scoreOut = NoScoreOut
    /\ ValidatorIdle
    /\ QuizIdle
    /\ adaptIn = NoAdaptIn
    /\ adaptOut = NoAdaptOut
    /\ genReq = [op |-> "generateAdaptiveQuiz"]
    /\ genPc = "prompt"
    /\ genCalls = <<>>
    /\ genReplies = <<>>
    /\ genQuiz = NoGenQuiz
    /\ genPrompt = NoPrompt
    /\ NothingRead
    /\ \E d \in Difficulties,
          n \in MinNumberOfQuestions..MaxNumberOfQuestions,
          wrong \in ExtractInputs, f, h \in BOOLEAN,
          topics \in {<<>>, <<"closures">>} :
          /\ topics # <<>> => f /\ Len(wrong) > 0
          /\ genParams = [originalDifficulty |-> d,
                          numberOfQuestions |-> n,
                          wrongAnswers |-> wrong,
                          focusOnWeakAreas |-> f,
                          useHarderDifficulty |-> h]
          /\ weakTopics = Arr(topics)

\* const prompt = this.buildAdaptivePrompt(...)
BuildAdaptivePrompt ==
    /\ genPc = "prompt"
    /\ genPrompt' = AdaptivePrompt(genParams, weakTopics.items)
    /\ genPc' = "done"
    /\ UNCHANGED <<store, nreq, pc, req, loc, ret, scoreVars, valVars,
                   quizVars, adaptVars, readOut, deletedQuizzes, genReq,
                   genParams, genCalls, genReplies, weakTopics, genQuiz>>

PromptNext == BuildAdaptivePrompt

PromptSpec == PromptInit /\ [][PromptNext]_vars


(***************************************************************************)
(* Properties                                                              *)
(***************************************************************************)
AttemptIds == 1..Len(attempts)

\* the Results that reference attempt a
ResultsOf(a) == {r \in 1..Len(results) : results[r].attemptId = a}

\* the in-progress attempts of a (user, quiz) pair in a collection
LiveIn(coll, userId, quizId) ==
    {a \in 1..Len(coll) :
        /\ coll[a].userId = userId
        /\ coll[a].quizId = quizId
        /\ coll[a].status = "in-progress"}

LiveAttempts(userId, quizId) == LiveIn(attempts, userId, quizId)

\* a submit of attempt a is between its lookup and its return
SubmitInFlight(a) ==
    \E p \in Procs :
        /\ pc[p] \in {"submit_save_attempt", "submit_save_result"}
        /\ loc[p].aid = a

\* C1: whenever no submit of the attempt is in flight (so also after a save of
\* submit has failed), a completed attempt has a Result referencing it and a
\* Result references only a completed attempt.
C1_SubmitIsOneUnit ==
    \A a \in AttemptIds :
        ~SubmitInFlight(a) =>
            /\ attempts[a].status = "completed" => ResultsOf(a) # {}
            /\ ResultsOf(a) # {} => attempts[a].status = "completed"

\* C2: under every interleaving of submit calls at most one Result references
\* an attempt.
C2_AtMostOneResult ==
    \A a \in AttemptIds : Cardinality(ResultsOf(a)) <= 1

\* C3: under every interleaving of start calls a (user, quiz) pair never has
\* two in-progress attempts.
C3_OneInProgressPerPair ==
    \A u \in Users, q \in QuizSlugs : Cardinality(LiveAttempts(u, q)) <= 1

\* C4: no step changes the status of an attempt that is completed or
\* abandoned.
C4_TerminalIsFinal ==
    [][\A a \in AttemptIds :
          attempts[a].status # "in-progress"
              => attempts'[a].status = attempts[a].status]_vars

Accessible(userId, quizId) ==
    /\ quizId \in QuizSlugs
    /\ Quizzes[quizId].creatorId = userId \/ Quizzes[quizId].isPublic

\* C5: a start call that finds an in-progress attempt of its (user, quiz) pair
\* returns in that very step, with that attempt's identifier, and leaves the
\* attempt collection as it is; and whenever a start has returned successfully,
\* the returned attempt is the one in-progress attempt of the pair, so that
\* the next start returns the same identifier.
C5_StartIsIdempotent ==
    [][\A p \in Procs :
          /\ (/\ pc[p] = "idle"
              /\ pc'[p] # "idle"
              /\ req'[p].op = "start"
              /\ Accessible(req'[p].userId, req'[p].quizId)
              /\ LiveAttempts(req'[p].userId, req'[p].quizId) # {})
             => /\ attempts' = attempts
                /\ pc'[p] = "done"
                /\ ret'[p].kind = "ok"
                /\ LiveAttempts(req'[p].userId, req'[p].quizId) = {ret'[p].id}
          /\ (/\ pc'[p] = "done"
              /\ req'[p].op = "start"
              /\ ret'[p].kind = "ok")
             => LiveIn(attempts', req'[p].userId, req'[p].quizId) = {ret'[p].id}]_vars

\* a start has returned an attempt that already holds an answer
C5_Witness ==
    \E p \in Procs :
        /\ pc[p] = "done"
        /\ req[p].op = "start"
        /\ ret[p].kind = "ok"
        /\ attempts[ret[p].id].answers # <<>>

\* the selections stored for question index qi in an answer array
SelectionsFor(answers, qi) ==
    {answers[k].selectedAnswers :
        k \in {j \in 1..Len(answers) : answers[j].questionIndex = qi}}

RecordsFor(answers, qi) ==
    {k \in 1..Len(answers) : answers[k].questionIndex = qi}

\* C6: a successful submitAnswer for index i leaves exactly one record for i,
\* holding the submitted selection, and leaves the records of the other
\* indices alone; no attempt ever holds two records for one index; and while
\* an attempt is in progress nothing but a successful submitAnswer changes its
\* answers.
C6_AnswerIsUpsert ==
    [][/\ \A p \in Procs :
            (pc[p] = "answer_save" /\ pc'[p] = "done" /\ ret'[p].kind = "ok")
            => LET a == loc[p].aid
                   qi == req[p].questionIndex
               IN /\ Cardinality(RecordsFor(attempts'[a].answers, qi)) = 1
                  /\ SelectionsFor(attempts'[a].answers, qi) = {req[p].selectedAnswers}
                  /\ \A j \in 0..MaxQIndex :
                        j # qi => SelectionsFor(attempts'[a].answers, j)
                                    = SelectionsFor(attempts[a].answers, j)
       /\ \A a \in AttemptIds, qi \in 0..MaxQIndex :
            Cardinality(RecordsFor(attempts'[a].answers, qi)) <= 1
       /\ \A a \in AttemptIds :
            (/\ attempts'[a].status = "in-progress"
             /\ ~\E p \in Procs : pc[p] = "answer_save" /\ ret'[p].kind = "ok")
            => attempts'[a].answers = attempts[a].answers]_vars

\* a submitAnswer has overwritten the record of an index answered before
C6_Witness ==
    \E p \in Procs :
        /\ pc[p] = "done"
        /\ req[p].op = "answer"
        /\ ret[p].kind = "ok"
        /\ loc[p].existingAnswerIndex # 0
        /\ Len(attempts[loc[p].aid].answers) = 2

(***************************************************************************)
(* Scoring                                                                 *)
(***************************************************************************)
Range(s) == {s[i] : i \in 1..Len(s)}

Count(s, v) == Cardinality({i \in 1..Len(s) : s[i] = v})

\* the same indices with the same number of entries, in any order
SameIndices(s, c) ==
    /\ Len(s) = Len(c)
    /\ \A v \in Range(s) \cup Range(c) : Count(s, v) = Count(c, v)

Scored == scoreOut # NoScoreOut

\* the selection submitted for the question at position i, <<>> when there is
\* none (answers.find takes the first record of the index)
Submitted(i) ==
    LET S == RecordsFor(scoreIn.answers, i - 1)
    IN IF S = {} THEN <<>>
       ELSE scoreIn.answers[CHOOSE k \in S : \A j \in S : k <= j].selectedAnswers

Answered(i) == RecordsFor(scoreIn.answers, i - 1) # {}

\* C7: an answered question is marked correct exactly when its selection holds
\* the same indices as the correct answers, however ordered; a selection that
\* is a strict subset or a strict superset of the correct set is incorrect.
C7_ExactMatch ==
    Scored =>
        \A i \in 1..Len(scoreIn.questions) :
            LET correct == scoreIn.questions[i].correctAnswers
                g == scoreOut.answers[i]
            IN Answered(i) =>
                /\ g.isCorrect <=> SameIndices(Submitted(i), correct)
                /\ (/\ Range(Submitted(i)) # Range(correct)
                    /\ \/ Range(Submitted(i)) \subseteq Range(correct)
                       \/ Range(correct) \subseteq Range(Submitted(i)))
                   => ~g.isCorrect

\* a selection given in another order than the correct answers is marked
\* correct, and a strict superset of a correct set is marked incorrect
C7_Witness ==
    /\ Scored
    /\ Len(scoreIn.questions) = 2
    /\ Answered(1) /\ Answered(2)
    /\ scoreOut.answers[1].isCorrect
    /\ Submitted(1) # scoreIn.questions[1].correctAnswers
    /\ ~scoreOut.answers[2].isCorrect
    /\ Range(scoreIn.questions[2].correctAnswers) \subseteq Range(Submitted(2))
    /\ Range(scoreIn.questions[2].correctAnswers) # Range(Submitted(2))

\* C8: a question without a submitted answer is graded incorrect with an empty
\* selection; with no answers at all the score is 0 and no graded answer is
\* correct.
C8_UnansweredIsIncorrect ==
    Scored =>
        /\ Len(scoreOut.answers) = Len(scoreIn.questions)
        /\ \A i \in 1..Len(scoreIn.questions) :
              ~Answered(i) => /\ ~scoreOut.answers[i].isCorrect
                              /\ scoreOut.answers[i].selectedAnswers = <<>>
        /\ scoreIn.answers = <<>>
              => /\ scoreOut.score = 0
                 /\ \A i \in 1..Len(scoreIn.questions) : ~scoreOut.answers[i].isCorrect

\* a two-question quiz has been scored against an attempt without answers
C8_Witness ==
    /\ Scored
    /\ Len(scoreIn.questions) = 2
    /\ scoreIn.answers = <<>>
    /\ scoreOut.score = 0

\* the selection attempt a stores for question index qi is the correct one
StoredCorrect(a, qi) ==
    LET answers == attempts[a].answers
        correct == Quizzes[attempts[a].quizId].questions[qi + 1].correctAnswers
    IN \E k \in RecordsFor(answers, qi) :
          SameIndices(answers[k].selectedAnswers, correct)

\* C9: the score of a Result is the number of its graded answers marked
\* correct, which is the number k of questions the attempt answered correctly,
\* and its percentage is 100 * score / totalQuestions, totalQuestions being
\* the declared number n of questions of the quiz.
C9_ScoreAndPercentage ==
    \A r \in 1..Len(results) :
        LET res == results[r]
            quiz == Quizzes[res.quizId]
        IN /\ res.score = Cardinality({i \in 1..Len(res.answers) : res.answers[i].isCorrect})
           /\ res.score = Cardinality({qi \in 0..(Len(quiz.questions) - 1) :
                                          StoredCorrect(res.attemptId, qi)})
           /\ res.totalQuestions = quiz.numberOfQuestions
           /\ res.percentage.den # 0
           /\ res.percentage.num * res.totalQuestions
                 = 100 * res.score * res.percentage.den

\* every question of the two-question quiz was answered, one of them
\* correctly: score 1, percentage 50
C9_Witness ==
    \E r \in 1..Len(results) :
        /\ results[r].quizId = "q1"
        /\ Len(attempts[results[r].attemptId].answers) = 2
        /\ results[r].score = 1
        /\ results[r].totalQuestions = 2
        /\ results[r].percentage.num = 50 * results[r].percentage.den

\* the state a failed save of submit leaves behind: exactly one of "attempt
\* completed" and "Result stored" holds
PartlySubmitted(a) ==
    /\ ~SubmitInFlight(a)
    /\ attempts[a].status # "abandoned"
    /\ (attempts[a].status = "completed") # (ResultsOf(a) # {})

\* C10: when the owner retries submit on an attempt that a failed save left
\* partly submitted, the retry has, when it returns, completed the missing
\* step: the attempt is completed and exactly one Result references it.
C10_RetryCompletesSubmit ==
    [][\A p \in Procs, a \in AttemptIds :
          (/\ PartlySubmitted(a)
           /\ pc[p] = "idle"
           /\ pc'[p] = "done"
           /\ req'[p].op = "submit"
           /\ req'[p].attemptId = a
           /\ req'[p].userId = attempts[a].userId)
          => /\ attempts'[a].status = "completed"
             /\ Cardinality(ResultsOf(a)') = 1]_vars

(***************************************************************************)
(* Error handling of the attempt handlers                                  *)
(***************************************************************************)
\* process p receives a request of handler op in this step
Receives(p, op) == pc[p] = "idle" /\ pc'[p] # "idle" /\ req'[p].op = op

\* the handler of p throws kind in this step
Throws(p, kind) == pc'[p] = "done" /\ ret'[p].kind = kind

ErrorKinds == {"NotFound", "Forbidden", "InvalidState", "OutOfRange"}

\* C11: submitAnswer throws NotFound for a missing attempt, Forbidden for a
\* caller who does not own it, InvalidState for an attempt that is not in
\* progress, OutOfRange for a questionIndex at or beyond the quiz's question
\* count, and goes on to the save only when none applies; whenever it throws,
\* the attempt collection is as before.
C11_AnswerErrors ==
    [][\A p \in Procs :
          /\ Receives(p, "answer") =>
                LET r == req'[p]
                    a == r.attemptId
                IN IF a \notin AttemptIds THEN Throws(p, "NotFound")
                   ELSE IF attempts[a].userId # r.userId THEN Throws(p, "Forbidden")
                   ELSE IF attempts[a].status # "in-progress"
                   THEN Throws(p, "InvalidState")
                   ELSE IF r.questionIndex >=
                              Len(Quizzes[attempts[a].quizId].questions)
                   THEN Throws(p, "OutOfRange")
                   ELSE pc'[p] = "answer_save"
          /\ (/\ pc[p] # "done"
              /\ req'[p].op = "answer"
              /\ \E kind \in ErrorKinds : Throws(p, kind))
             => attempts' = attempts /\ results' = results]_vars

\* submitAnswer has thrown OutOfRange on an in-progress attempt that holds an
\* answer
C11_Witness ==
    \E p \in Procs :
        /\ pc[p] = "done"
        /\ req[p].op = "answer"
        /\ ret[p].kind = "OutOfRange"
        /\ attempts[req[p].attemptId].status = "in-progress"
        /\ attempts[req[p].attemptId].answers # <<>>

\* C12: submit throws NotFound for a missing attempt, Forbidden for a caller
\* who does not own it and InvalidState for an attempt that is completed or
\* abandoned, and goes on to the saves only when none applies; whenever it
\* throws, no Result is created and the attempt collection is as before.
C12_SubmitErrors ==
    [][\A p \in Procs :
          /\ Receives(p, "submit") =>
                LET r == req'[p]
                    a == r.attemptId
                IN IF a \notin AttemptIds THEN Throws(p, "NotFound")
                   ELSE IF attempts[a].userId # r.userId THEN Throws(p, "Forbidden")
                   ELSE IF attempts[a].status \in {"completed", "abandoned"}
                   THEN Throws(p, "InvalidState")
                   ELSE pc'[p] = "submit_save_attempt"
          /\ (/\ pc[p] # "done"
              /\ req'[p].op = "submit"
              /\ \E kind \in ErrorKinds : Throws(p, kind))
             => attempts' = attempts /\ results' = results]_vars

\* submit has thrown InvalidState on an abandoned attempt
C12_Witness ==
    \E p \in Procs :
        /\ pc[p] = "done"
        /\ req[p].op = "submit"
        /\ ret[p].kind = "InvalidState"
        /\ attempts[req[p].attemptId].status = "abandoned"
        /\ results = <<>>

\* C13: start throws NotFound for a slug that resolves to no quiz and
\* Forbidden for a quiz that is neither public nor created by the caller, and
\* then creates no attempt; for a quiz that is public or created by the caller
\* it throws neither: it returns an attempt or goes on to save a new one.
C13_StartErrors ==
    [][\A p \in Procs :
          /\ Receives(p, "start") =>
                LET r == req'[p]
                IN IF r.quizId \notin QuizSlugs THEN Throws(p, "NotFound")
                   ELSE IF ~(\/ Quizzes[r.quizId].isPublic
                             \/ Quizzes[r.quizId].creatorId = r.userId)
                   THEN Throws(p, "Forbidden")
                   ELSE \/ Throws(p, "ok")
                        \/ /\ pc'[p] = "start_save"
                           /\ loc'[p].doc.userId = r.userId
                           /\ loc'[p].doc.quizId = r.quizId
          /\ (/\ pc[p] # "done"
              /\ req'[p].op = "start"
              /\ \E kind \in ErrorKinds : Throws(p, kind))
             => attempts' = attempts]_vars

\* a caller has started a public quiz of another user, and a start of a
\* private quiz of another user has thrown Forbidden
C13_Witness ==
    /\ \E a \in AttemptIds :
          /\ Quizzes[attempts[a].quizId].creatorId # attempts[a].userId
          /\ Quizzes[attempts[a].quizId].isPublic
    /\ \E p \in Procs :
          /\ pc[p] = "done"
          /\ req[p].op = "start"
          /\ ret[p].kind = "Forbidden"

(***************************************************************************)
(* The question validator                                                  *)
(***************************************************************************)
KnownTypes == {<<"mcq">>, <<"true-false">>, <<"multiple-correct">>}

\* the text of an option without its surrounding white space
Core(chars) ==
    LET inked == {i \in 1..Len(chars) : chars[i] # " "}
    IN IF inked = {} THEN <<>>
       ELSE SubSeq(chars, CHOOSE i \in inked : \A j \in inked : i <= j,
                          CHOOSE i \in inked : \A j \in inked : j <= i)

SameLetter(c, d) == c = d \/ {c, d} = {"a", "A"} \/ {c, d} = {"b", "B"}

\* two options are the same under case-insensitive trimmed comparison
SameOption(x, y) ==
    /\ Len(Core(x)) = Len(Core(y))
    /\ \A i \in 1..Len(Core(x)) : SameLetter(Core(x)[i], Core(y)[i])

\* v is an index into a list of n options
IsIndex(v, n) == v.type = "number" /\ v.den = 1 /\ v.num \in 0..(n - 1)

\* the structural rules for a question of the given type text, option list
\* and correct-answer list
WellFormed(type, options, correct, permitted) ==
    /\ type \in KnownTypes
    /\ type \in permitted
    /\ Len(options) >= 2
    /\ \A i \in 1..Len(options) :
          options[i].type = "string" /\ Core(options[i].chars) # <<>>
    /\ \A i, j \in 1..Len(options) :
          i # j => ~SameOption(options[i].chars, options[j].chars)
    /\ Len(correct) >= 1
    /\ \A i \in 1..Len(correct) : IsIndex(correct[i], Len(options))
    /\ type = <<"true-false">> => Len(options) = 2
    /\ type = <<"mcq">> => Len(correct) = 1
    /\ type = <<"multiple-correct">> => Len(correct) >= 2

\* a candidate record that satisfies every rule
ValidCandidate(c, permitted) ==
    /\ c.questionType.type = "string"
    /\ c.options.isArray
    /\ c.correctAnswers.isArray
    /\ WellFormed(c.questionType.chars, c.options.items,
                  c.correctAnswers.items, permitted)

\* C14: every question the validator has accepted satisfies all structural
\* rules: a known and permitted type, at least two options, each a string
\* that is not blank, no two options equal up to case and surrounding white
\* space, a non-empty list of correct indices each an index of an option,
\* and the rule of its type.
C14_OutputIsWellFormed ==
    \A i \in 1..Len(validQuestions) :
        WellFormed(validQuestions[i].questionType, validQuestions[i].options,
                   validQuestions[i].correctAnswers,
                   valIn.requestedQuestionTypes)

\* C15: when the validator returns, its output is the list of the valid
\* candidates in input order, each with its text, type, options and correct
\* answers, and with the placeholder in place of a missing or empty
\* explanation.
C15_OutputIsValidSubsequence ==
    valOut.kind = "ok" =>
        LET Keeps(c) == ValidCandidate(c, valIn.requestedQuestionTypes)
            kept == SelectSeq(valIn.questions, Keeps)
        IN /\ Len(valOut.questions) = Len(kept)
           /\ \A i \in 1..Len(kept) :
                 /\ valOut.questions[i].questionText = kept[i].questionText
                 /\ valOut.questions[i].questionType = kept[i].questionType.chars
                 /\ valOut.questions[i].options = kept[i].options.items
                 /\ valOut.questions[i].correctAnswers
                        = kept[i].correctAnswers.items
                 /\ valOut.questions[i].explanation =
                        IF kept[i].explanation \in {Undefined, Str(<<>>)}
                        THEN Str(<<"No explanation provided.">>)
                        ELSE kept[i].explanation

\* C16: the validator throws NoValidQuestions exactly when the loop has kept
\* no candidate, the empty input included; when it has kept one, it returns
\* what it kept although other candidates were skipped.
C16_ThrowsIffNoSurvivor ==
    [][valOut.kind = "none" /\ valOut'.kind # "none" =>
          /\ valIndex = Len(valIn.questions)
          /\ valOut'.kind = "NoValidQuestions" <=> validQuestions = <<>>
          /\ valOut'.kind = "ok" <=> validQuestions # <<>>
          /\ valOut'.kind = "ok" => valOut'.questions = validQuestions]_vars

\* a returned list that is shorter than the input
C16_Witness ==
    /\ valOut.kind = "ok"
    /\ Len(valOut.questions) = 1
    /\ Len(valIn.questions) = 2

(***************************************************************************)
(* Adaptive quizzes                                                        *)
(***************************************************************************)
QuizIds == 1..Len(quizzes)

\* a quiz that was generated from a result
IsAdaptive(q) == quizzes[q].parentQuizId # 0

\* C17: every adaptive quiz is non-public, whatever generateAdaptiveQuiz,
\* toggleVisibility and updateQuiz calls have been made.
C17_AdaptiveIsPrivate ==
    \A q \in QuizIds : IsAdaptive(q) => ~quizzes[q].isPublic

\* C18: the parent recorded on an adaptive quiz is a stored quiz that has no
\* parent itself, namely the quiz of the triggering result or, when that quiz
\* is adaptive, the parent of that quiz; the recorded source result is a
\* stored result of the creator.
C18_ParentIsRoot ==
    \A q \in QuizIds :
        IsAdaptive(q) =>
            /\ quizzes[q].parentQuizId \in QuizIds
            /\ ~IsAdaptive(quizzes[q].parentQuizId)
            /\ quizzes[q].sourceResultId \in 1..Len(results)
            /\ results[quizzes[q].sourceResultId].userId = quizzes[q].creatorId
            /\ LET taken == results[quizzes[q].sourceResultId].quizId
               IN quizzes[q].parentQuizId =
                      IF IsAdaptive(taken) THEN quizzes[taken].parentQuizId
                      ELSE taken

\* an adaptive quiz generated from a result on an adaptive quiz
C18_Witness ==
    \E q \in QuizIds :
        /\ IsAdaptive(q)
        /\ IsAdaptive(results[quizzes[q].sourceResultId].quizId)

\* the graded answers of a result that are not correct
Incorrect(result) ==
    {i \in 1..Len(result.answers) : ~result.answers[i].isCorrect}

\* the adaptive quiz document has been built
Adapted == adaptOut # NoAdaptOut

\* C19: the generation type is adaptive-harder whenever useHarderDifficulty
\* was requested, adaptive-weak when it was not and focus was requested on a
\* result with a wrong answer, adaptive-same otherwise.
C19_TagPriority ==
    Adapted =>
        adaptOut.generationType =
            IF adaptIn.dto.useHarderDifficulty THEN "adaptive-harder"
            ELSE IF adaptIn.dto.focusOnWeakAreas /\ Incorrect(adaptIn.result) # {}
            THEN "adaptive-weak"
            ELSE "adaptive-same"

\* harder was requested together with an effective focus
C19_Witness ==
    /\ Adapted
    /\ adaptIn.dto.useHarderDifficulty
    /\ adaptIn.dto.focusOnWeakAreas
    /\ Incorrect(adaptIn.result) # {}
    /\ adaptOut.generationType = "adaptive-harder"

Level(d) == CASE d = "easy" -> 1 [] d = "medium" -> 2 [] d = "hard" -> 3

\* C20: with useHarderDifficulty the difficulty of the adaptive quiz is one
\* level above that of the source quiz, and hard stays hard; without it the
\* difficulty is that of the source quiz.
C20_TargetDifficulty ==
    Adapted =>
        LET from == Level(adaptIn.originalQuiz.difficulty)
            to == Level(adaptOut.difficulty)
        IN IF adaptIn.dto.useHarderDifficulty
           THEN to = (IF from = 3 THEN 3 ELSE from + 1)
           ELSE to = from

\* a harder quiz was requested from a hard one
C20_Witness ==
    /\ Adapted
    /\ adaptIn.dto.useHarderDifficulty
    /\ adaptIn.originalQuiz.difficulty = "hard"
    /\ adaptOut.difficulty = "hard"

(***************************************************************************)
(* Generation requests (GenerationSpec).                                   *)
(***************************************************************************)
\* the request is an adaptive one that passes the checks of the handler:
\* its Result is stored, belongs to the caller, and so is the quiz of it
Authorised ==
    /\ genReq.op = "generateAdaptiveQuiz"
    /\ genReq.dto.resultSlug \in 1..Len(results)
    /\ results[genReq.dto.resultSlug].userId = genReq.userId
    /\ results[genReq.dto.resultSlug].quizId \in QuizIds

\* the Result an authorised request starts from has no wrong answer
NothingWrong == Incorrect(results[genReq.dto.resultSlug]) = {}

\* C21: the focus flag handed to the generation is focusOnWeakAreas AND
\* (some answer of the Result is wrong); a request for focus on a Result
\* without wrong answers goes on to the generator with the flag off
C21_EffectiveFocus ==
    [][(genPc = "start" /\ Authorised) =>
          /\ genPc' \in {"extract", "generate"}
          /\ genParams'.focusOnWeakAreas =
                (genReq.dto.focusOnWeakAreas /\ ~NothingWrong)]_vars

\* focus was requested on a Result without wrong answers and the generation
\* prompt was sent with the flag off
C21_Witness ==
    /\ Authorised
    /\ genReq.dto.focusOnWeakAreas
    /\ NothingWrong
    /\ genPc = "generate"
    /\ ~genParams.focusOnWeakAreas

\* the chat completions requested so far for weak-topic extraction
ExtractionCalls ==
    {i \in 1..Len(genCalls) : genCalls[i] = "extract_weak_topics"}

\* C22: extractWeakTopics on an empty wrong-answer list returns an empty list
\* without asking the generator; an adaptive generation asks the generator
\* for weak topics only if the effective focus flag is on and the Result has
\* a wrong answer
C22_ExtractionOnlyWhenNeeded ==
    /\ (/\ genReq.op = "extractWeakTopics"
        /\ genReq.wrongAnswers = <<>>
        /\ genPc # "start")
       => genPc = "done" /\ genCalls = <<>> /\ weakTopics = Arr(<<>>)
    /\ (genReq.op = "generateAdaptiveQuiz" /\ ExtractionCalls # {})
       => Authorised /\ genParams.focusOnWeakAreas /\ ~NothingWrong

\* extractWeakTopics has returned for an empty wrong-answer list
C22_Witness ==
    /\ genReq.op = "extractWeakTopics"
    /\ genReq.wrongAnswers = <<>>
    /\ genPc = "done"

\* the generator call for weak topics was made and failed: it was rejected,
\* answered without content, or answered with text that does not parse
ExtractionFailed ==
    /\ genCalls # <<>>
    /\ genCalls[1] = "extract_weak_topics"
    /\ genReplies # <<>>
    /\ genReplies[1].kind \in {"error", "no-content", "unparsable"}

\* C23: when the generator call of the weak-topic extraction fails, the
\* extraction returns an empty list and passes no failure on: called on its
\* own it returns, and an adaptive generation goes on to request the
\* questions with no weak topics
C23_ExtractionFailsOpen ==
    ExtractionFailed =>
        /\ weakTopics = Arr(<<>>)
        /\ genReq.op = "extractWeakTopics" =>
              genPc = "done" /\ quizRet = NoRet
        /\ genReq.op = "generateAdaptiveQuiz" =>
              /\ Len(genCalls) = 2
              /\ genCalls[2] = "generate_adaptive_quiz"
              /\ Len(genReplies) = 1 => genPc = "generate" /\ quizRet = NoRet

\* an adaptive generation whose weak-topic extraction failed has stored its
\* quiz
C23_Witness ==
    /\ ExtractionFailed
    /\ genReq.op = "generateAdaptiveQuiz"
    /\ quizRet.kind = "ok"
    /\ Len(quizzes) = 3

\* a reply to the generation prompt that carries a valid question
Usable(reply) ==
    /\ reply.kind = "json"
    /\ reply.value.isArray
    /\ \E i \in 1..Len(reply.value.items) :
          ValidCandidate(reply.value.items[i], KnownTypes)

\* C24: a generation whose generator call fails, whose reply does not parse
\* or whose candidates are all rejected ends with an error and the stored
\* quizzes as they were; a quiz is stored only when every generator call has
\* been answered, and it holds valid questions only
C24_ValidateThenCommit ==
    [][/\ (genPc = "generate" /\ ~Usable(genReplies'[Len(genReplies')])) =>
             /\ quizzes' = quizzes
             /\ genPc' = "done"
             /\ quizRet'.kind = "InternalServerError"
       /\ quizzes' # quizzes =>
             /\ Len(genReplies) = Len(genCalls)
             /\ Usable(genReplies[Len(genReplies)])
             /\ Len(quizzes') = Len(quizzes) + 1
             /\ SubSeq(quizzes', 1, Len(quizzes)) = quizzes
             /\ LET questions == quizzes'[Len(quizzes')].questions
                IN /\ questions # <<>>
                   /\ \A i \in 1..Len(questions) :
                         WellFormed(questions[i].questionType,
                                    questions[i].options,
                                    questions[i].correctAnswers, KnownTypes)]_vars

\* a generation has ended with an error because every candidate of the
\* reply was rejected
C24_Witness ==
    /\ genPc = "done"
    /\ genReplies # <<>>
    /\ genReplies[Len(genReplies)].kind = "json"
    /\ genReplies[Len(genReplies)].value.isArray
    /\ genReplies[Len(genReplies)].value.items # <<>>
    /\ genCalls[Len(genCalls)] \in {"generate_quiz", "generate_adaptive_quiz"}
    /\ quizRet.kind = "InternalServerError"

(***************************************************************************)
(* Results (ResultSpec).                                                   *)
(***************************************************************************)
\* result r with its visibility flag left out of the comparison
Hidden(result) == [result EXCEPT !.isResultPublic = FALSE]

\* C25: a stored Result stays stored and keeps every field but its
\* visibility flag; a visibility toggle by the owner that succeeds negates
\* the flag of that Result and changes no other Result (so two of them give
\* back the first value); a toggle by another user is refused as Forbidden
\* and changes nothing
C25_OnlyVisibilityChanges ==
    [][/\ Len(results') >= Len(results)
       /\ \A r \in 1..Len(results) : Hidden(results'[r]) = Hidden(results[r])
       /\ \A p \in Procs :
             /\ (req[p].op = "toggle" /\ pc[p] # "done" /\ Throws(p, "ok")) =>
                   \A r \in 1..Len(results) :
                      results'[r].isResultPublic =
                         IF r = req[p].resultSlug
                         THEN ~results[r].isResultPublic
                         ELSE results[r].isResultPublic
             /\ (/\ Receives(p, "toggle")
                 /\ req'[p].resultSlug \in 1..Len(results)) =>
                   IF results[req'[p].resultSlug].userId = req'[p].userId
                   THEN pc'[p] # "done" /\ results' = results
                   ELSE Throws(p, "Forbidden") /\ results' = results]_vars

\* the owner of a Result has toggled it to private
C25_Witness ==
    /\ req["p1"].op = "toggle"
    /\ ret["p1"].kind = "ok"
    /\ ~results[req["p1"].resultSlug].isResultPublic

(***************************************************************************)
(* Overlapping requests (Spec).                                            *)
(***************************************************************************)
\* the handler of p is a submitAnswer whose save() succeeds in this step
AnswerStored(p) ==
    /\ req[p].op = "answer"
    /\ pc[p] = "answer_save"
    /\ Throws(p, "ok")

\* C26: however submitAnswer calls on one attempt overlap, each call that
\* succeeds leaves the selections stored for the other question indices as
\* they were (calls on disjoint indices both end up stored) and leaves
\* exactly one record for its own index, holding its selection (of two
\* calls on one index the later save wins)
C26_NoLostAnswer ==
    [][\A p \in Procs :
          AnswerStored(p) =>
             LET before == attempts[req[p].attemptId].answers
                 after == attempts'[req[p].attemptId].answers
             IN /\ \A qi \in 0..MaxQIndex \ {req[p].questionIndex} :
                      /\ SelectionsFor(after, qi) = SelectionsFor(before, qi)
                      /\ RecordsFor(after, qi) = RecordsFor(before, qi)
                /\ SelectionsFor(after, req[p].questionIndex) =
                      {req[p].selectedAnswers}
                /\ Cardinality(RecordsFor(after, req[p].questionIndex)) = 1]_vars

(***************************************************************************)
(* Scoring leaves its arguments alone (ScoreSpec).                         *)
(***************************************************************************)
\* C27: calculateScore leaves the correct-answer lists of the quiz and the
\* selections of the attempt as they were given, order included
C27_ScoringIsPure ==
    Scored =>
        /\ \A i \in 1..Len(scoreIn.questions) :
              scoreOut.quizQuestions[i].correctAnswers =
                 scoreIn.questions[i].correctAnswers
        /\ \A k \in 1..Len(scoreIn.answers) :
              scoreOut.attemptAnswers[k].selectedAnswers =
                 scoreIn.answers[k].selectedAnswers

(***************************************************************************)
(* abandonAttempt and startAttempt, one request at a time (SeqSpec).       *)
(***************************************************************************)
\* C28: abandon of a missing attempt is refused as NotFound and of another
\* user's attempt as Forbidden, with the store left as it is; abandon of an
\* in-progress attempt by its owner goes through to save(), and when that
\* succeeds the attempt is abandoned, with the same answers, every other
\* attempt and every Result are as before
C28_Abandon ==
    [][\A p \in Procs :
          /\ Receives(p, "abandon") =>
                /\ store' = store
                /\ IF req'[p].attemptId \notin AttemptIds
                   THEN Throws(p, "NotFound")
                   ELSE IF attempts[req'[p].attemptId].userId # req'[p].userId
                   THEN Throws(p, "Forbidden")
                   ELSE pc'[p] # "done"
          /\ (/\ req[p].op = "abandon"
              /\ pc[p] # "done"
              /\ Throws(p, "ok")
              /\ attempts[req[p].attemptId].status = "in-progress") =>
                /\ results' = results
                /\ Len(attempts') = Len(attempts)
                /\ \A a \in AttemptIds :
                      IF a = req[p].attemptId
                      THEN /\ attempts'[a].status = "abandoned"
                           /\ attempts'[a].answers = attempts[a].answers
                           /\ attempts'[a].userId = attempts[a].userId
                           /\ attempts'[a].quizId = attempts[a].quizId
                      ELSE attempts'[a] = attempts[a]]_vars

\* an in-progress attempt with an answer has been abandoned by its owner
C28_Witness ==
    \E p \in Procs :
        /\ req[p].op = "abandon"
        /\ ret[p].kind = "ok"
        /\ attempts[ret[p].id].status = "abandoned"
        /\ attempts[ret[p].id].answers # <<>>
        /\ ResultsOf(ret[p].id) = {}

\* C29: a start for an accessible quiz on which the user has no in-progress
\* attempt (none yet, or only submitted and abandoned ones) goes on to save a
\* new attempt; when the save succeeds the collection has one attempt more,
\* in progress and without answers, of that user and quiz, under an
\* identifier no attempt had before, and the earlier attempts and the
\* Results are as before
C29_StartCreatesFresh ==
    [][\A p \in Procs :
          /\ (/\ Receives(p, "start")
              /\ Accessible(req'[p].userId, req'[p].quizId)
              /\ LiveAttempts(req'[p].userId, req'[p].quizId) = {}) =>
                pc'[p] # "done" /\ store' = store
          /\ (req[p].op = "start" /\ pc[p] # "done" /\ Throws(p, "ok")) =>
                /\ results' = results
                /\ Len(attempts') = Len(attempts) + 1
                /\ \A a \in AttemptIds : attempts'[a] = attempts[a]
                /\ ret'[p].id = Len(attempts')
                /\ ret'[p].id \notin AttemptIds
                /\ attempts'[ret'[p].id].status = "in-progress"
                /\ attempts'[ret'[p].id].answers = <<>>
                /\ attempts'[ret'[p].id].userId = req[p].userId
                /\ attempts'[ret'[p].id].quizId = req[p].quizId]_vars

\* a second attempt has been started on a quiz after the first attempt of
\* the same user on it was submitted or abandoned
C29_Witness ==
    \E p \in Procs :
        /\ req[p].op = "start"
        /\ ret[p].kind = "ok"
        /\ ret[p].id = 2
        /\ attempts[1].status \in {"completed", "abandoned"}
        /\ attempts[1].userId = attempts[2].userId
        /\ attempts[1].quizId = attempts[2].quizId
        /\ attempts[2].status = "in-progress"
        /\ attempts[2].answers = <<>>

(***************************************************************************)
(* submitAnswer against submitAttempt (Spec).                              *)
(***************************************************************************)
\* the selection a graded answer array records for question index qi
GradedSelections(graded, qi) ==
    {graded[k].selectedAnswers :
        k \in {j \in 1..Len(graded) : graded[j].questionIndex = qi}}

\* C30: however submitAnswer and submit overlap, the stored answers of a
\* completed attempt never change, and for every question they are the
\* selections its Result records (no selection where none is stored)
C30_GradedIsStored ==
    [][\A a \in 1..Len(attempts') :
          /\ (a \in AttemptIds /\ attempts[a].status = "completed") =>
                attempts'[a].answers = attempts[a].answers
          /\ attempts'[a].status = "completed" =>
                \A r \in {x \in 1..Len(results') : results'[x].attemptId = a},
                   qi \in 0..MaxQIndex :
                   GradedSelections(results'[r].answers, qi) \ {<<>>} =
                      SelectionsFor(attempts'[a].answers, qi) \ {<<>>}]_vars

(***************************************************************************)
(* Score bounds (SeqSpec).                                                 *)
(***************************************************************************)
\* C31: the score of every Result lies between 0 and its totalQuestions,
\* and its percentage between 0 and 100
C31_ScoreWithinTotal ==
    \A r \in 1..Len(results) :
        /\ 0 <= results[r].score
        /\ results[r].score <= results[r].totalQuestions
        /\ results[r].percentage.den > 0
        /\ 0 <= results[r].percentage.num
        /\ results[r].percentage.num <= 100 * results[r].percentage.den

\* generateQuiz has stored a quiz with more questions than it declares
C31_LongerThanDeclared ==
    /\ genReq.op = "generateQuiz"
    /\ quizRet.kind = "ok"
    /\ Len(quizzes[quizRet.id].questions) > quizzes[quizRet.id].numberOfQuestions

(***************************************************************************)
(* What the reads disclose (ReadSpec).                                     *)
(***************************************************************************)
\* the user holds a Result for the quiz
HoldsResult(userId, quizId) ==
    \E r \in 1..Len(results) :
        results[r].userId = userId /\ results[r].quizId = quizId

\* C32: a read that returns the questions of a quiz, with their correct
\* answers, returns them to the creator of the quiz or to a user who holds
\* a Result for it
C32_QuestionsOnlyAfterResult ==
    (readOut.kind = "ok" /\ readOut.questions.visible) =>
        \/ Quizzes[readOut.quizId].creatorId = readOut.userId
        \/ HoldsResult(readOut.userId, readOut.quizId)

(***************************************************************************)
(* Submitting after the quiz was deleted (DeleteSpec).                     *)
(***************************************************************************)
\* C34: a submit by the owner of an in-progress attempt is not refused,
\* whatever happened to the quiz since the attempt was started
C34_SubmitIsAccepted ==
    [][\A p \in Procs :
          (/\ Receives(p, "submit")
           /\ req'[p].attemptId \in AttemptIds
           /\ attempts[req'[p].attemptId].userId = req'[p].userId
           /\ attempts[req'[p].attemptId].status = "in-progress") =>
             pc'[p] = "submit_save_attempt"]_vars

(***************************************************************************)
(* Correct answers as a set (ValidateSpec).                                *)
(***************************************************************************)
\* C33: the correct answers of every question the validator has accepted
\* are pairwise distinct, so a question with several correct answers has
\* as many different correct options
C33_CorrectAnswersAreDistinct ==
    \A i \in 1..Len(validQuestions) :
        \A j, k \in 1..Len(validQuestions[i].correctAnswers) :
            j # k => validQuestions[i].correctAnswers[j]
                         # validQuestions[i].correctAnswers[k]

(***************************************************************************)
(* The adaptive quiz and its prompt (GenerationSpec, PromptSpec).          *)
(***************************************************************************)
\* an adaptive quiz document has been built
AdaptiveBuilt ==
    /\ genReq.op = "generateAdaptiveQuiz"
    /\ genQuiz # NoGenQuiz

\* C35: an adaptive quiz tagged weak-focus records a non-empty list of weak
\* topics and was generated from a prompt with the weak-area instruction;
\* when no topic was extracted the quiz is not tagged weak-focus
C35_WeakTagMeansWeakTopics ==
    (AdaptiveBuilt /\ genQuiz.generationType = "adaptive-weak") =>
        /\ genQuiz.weakTopicsFocus # <<>>
        /\ genPrompt.instruction = "weak-areas"

\* C36: the difficulty stored on an adaptive quiz is the difficulty its
\* generation prompt asked for
C36_StoredDifficultyIsPromptDifficulty ==
    AdaptiveBuilt => genQuiz.difficulty = genPrompt.difficulty

\* a harder quiz was asked for on a result of an easy quiz, and was built
C36_Witness ==
    /\ AdaptiveBuilt
    /\ genReq.dto.useHarderDifficulty
    /\ genParams.originalDifficulty = "easy"
    /\ genQuiz.difficulty = "medium"

\* C37: a prompt with the weak-area instruction asks for w weak-area
\* questions and g general questions of the n requested, where w is the
\* least integer not below 0.75 n, g = n - w, w >= 1 and g >= 0; the
\* instruction is there when the focus flag is on and a topic was extracted
C37_WeakAreaCounts ==
    LET n == genParams.numberOfQuestions
        w == genPrompt.numberOfWeakQuestions
        g == genPrompt.numberOfNewQuestions
    IN /\ (/\ genPc = "done"
           /\ genParams.focusOnWeakAreas
           /\ weakTopics.items # <<>>) => genPrompt.instruction = "weak-areas"
       /\ genPrompt.instruction = "weak-areas" =>
             /\ 4 * w >= 3 * n
             /\ 4 * (w - 1) < 3 * n
             /\ w + g = n
             /\ w >= 1
             /\ g >= 0

\* the weak-area prompt for a single question: one weak-area question and
\* no general one
C37_Witness ==
    /\ genPrompt.instruction = "weak-areas"
    /\ genParams.numberOfQuestions = 1
    /\ genPrompt.numberOfWeakQuestions = 1
    /\ genPrompt.numberOfNewQuestions = 0

\* the generation prompt of an adaptive request has been sent
AdaptivePromptSent ==
    /\ genReq.op = "generateAdaptiveQuiz"
    /\ genPrompt # NoPrompt

\* C38: the adaptive prompt carries the weak-area instruction when the
\* effective focus flag is on and a topic was extracted; otherwise the
\* reinforcement instruction when the Result has a wrong answer; otherwise
\* neither
C38_OneOfThreeModes ==
    AdaptivePromptSent =>
        genPrompt.instruction =
            IF /\ genReq.dto.focusOnWeakAreas
               /\ ~NothingWrong
               /\ weakTopics.items # <<>>
            THEN "weak-areas"
            ELSE IF ~NothingWrong THEN "reinforce"
            ELSE "none"

\* focus was asked for, the Result has a wrong answer, no topic was
\* extracted: the prompt carries the reinforcement instruction
C38_Witness ==
    /\ AdaptivePromptSent
    /\ genReq.dto.focusOnWeakAreas
    /\ ExtractionCalls # {}
    /\ weakTopics = Arr(<<>>)
    /\ genPrompt.instruction = "reinforce"

\* the wrong-answer record of a graded answer of a Result on a quiz
WrongAnswerOf(answer, quiz) ==
    [questionText |-> quiz.questions[answer.questionIndex + 1].questionText,
     questionType |-> quiz.questions[answer.questionIndex + 1].questionType,
     options |-> quiz.questions[answer.questionIndex + 1].options,
     explanation |-> quiz.questions[answer.questionIndex + 1].explanation,
     selectedAnswers |-> answer.selectedAnswers,
     correctAnswers |-> answer.correctAnswers]

\* C39: the wrong-answer list an adaptive generation works with has one
\* record for each graded answer of the Result that is not correct, the
\* unanswered ones included, in the order of the Result, each with the text,
\* type, options and explanation of its question and the selected and
\* correct indices of the answer; it is empty exactly when every graded
\* answer is correct
C39_WrongAnswersAreTheIncorrect ==
    (Authorised /\ genPc # "start") =>
        LET result == results[genReq.dto.resultSlug]
            quiz == quizzes[result.quizId]
            wrong == genParams.wrongAnswers
        IN /\ Len(wrong) = Cardinality(Incorrect(result))
           /\ wrong = <<>> <=>
                 \A i \in 1..Len(result.answers) : result.answers[i].isCorrect
           /\ \E at \in [1..Len(wrong) -> Incorrect(result)] :
                 /\ \A j, k \in 1..Len(wrong) : j < k => at[j] < at[k]
                 /\ \A k \in 1..Len(wrong) :
                       wrong[k] = WrongAnswerOf(result.answers[at[k]], quiz)

\* a Result with two questions not answered: two records, the second one
\* of the second question with nothing selected
C39_Witness ==
    /\ Authorised
    /\ genPc = "generate"
    /\ Len(genParams.wrongAnswers) = 2
    /\ genParams.wrongAnswers[2].questionText = "Q2"
    /\ genParams.wrongAnswers[2].selectedAnswers = <<>>

====
